---- MODULE Spec2Model ----
(***************************************************************************)
(* A model of the homelab-ops command line tools:                          *)
(*   scripts/semaphore_cli.py  - the automation-server API CLI             *)
(*   scripts/db_cli.py         - the database query CLI                    *)
(*                                                                         *)
(* Python values are modelled as follows.  A dict is a function from       *)
(* strings (a record); None is the record None; a str whose characters     *)
(* matter is a sequence of one-character strings; an HTTP body is a record *)
(* [text, parsed] holding its text and what the JSON decoder of the        *)
(* requests library makes of it (NoJson when it raises ValueError).        *)
(***************************************************************************)
EXTENDS Integers, Sequences, FiniteSets, TLC

VARIABLES
    \* ---- HTTP client (semaphore_cli.api_request) ----
    h_pc,          \* "idle" | "returned" | "exited"
    h_req,         \* the arguments and the server's answer of the last call
    h_result,      \* what api_request did on the last call
    h_prev,        \* the answer and the error message of the call before
    \* ---- task run (semaphore_cli.cmd_task_run) ----
    pc,            \* position of the CLI process
    argv,          \* flags on the command line: [wait, tail]
    args,          \* parsed arguments (main rewrites args.wait): [wait, tail]
    task,          \* local `task`
    last_len,      \* local `last_len`
    stdout,        \* objects printed by output()
    stderr,        \* characters written by sys.stderr.write
    error_msg,     \* what error() printed (None when it never ran)
    exit_code,     \* <<>> while running, <<n>> once the process ended with code n
    requests,      \* trace of sleeps and HTTP requests, in order
    polls,         \* statuses fetched by the poll loop, in order
    srv_status,    \* server: status of the task ("absent" before the run POST)
    srv_raw,       \* server: raw output of the task
    append_only,   \* server: raw output so far changed only by appending
    failed_at,     \* position in requests of the request that failed, or 0
    \* ---- update / delete commands (semaphore_cli.cmd_*_update, cmd_*_delete) ----
    kind,          \* resource family both invocations address
    remote,        \* server: the record with id 1 of that family (Absent once deleted)
    cargs,         \* per invocation: [cmd, confirm, opts, active, inactive]
    cpc,           \* per invocation: position
    current,       \* per invocation: local `current`
    cout,          \* per invocation: objects printed to stdout
    cwarn,         \* per invocation: warnings printed to stderr
    cerr,          \* per invocation: what error() printed (None when it never ran)
    cexit,         \* per invocation: <<>> while running, <<n>> once ended with code n
    http_log,      \* every HTTP request made, in the order the server saw them
    \* ---- query (db_cli.cmd_query, run_query) ----
    qpc,           \* position of the CLI process
    qargs,         \* [db, sql, write] as parsed, and how the statement was composed
    sql,           \* local `sql` (the statement, stripped)
    is_write,      \* local `is_write`
    qout,          \* objects printed to stdout
    qerr,          \* what error() or the interpreter printed (None when nothing)
    qexit,         \* <<>> while running, <<n>> once the process ended with code n
    db_log,        \* calls made on the database driver, in order
    db_data,       \* database: [committed, pending] numbers of changes made
    \* ---- invocations of either CLI on one credential file (main, config) ----
    tool,          \* "api" (semaphore_cli.py) or "db" (db_cli.py)
    margs,         \* the command line of the running invocation
    environ,       \* os.environ of the running invocation
    cred_file,     \* the credential file: [exists, sections]
    mpc,           \* position of the running invocation
    mconfig,       \* what load_config returned (None before)
    mout,          \* objects printed to stdout
    merr,          \* what was printed to stderr when the process ended (None when nothing)
    mexit,         \* <<>> while running, <<n>> once the process ended with code n
    io_log,        \* HTTP requests sent and database connections opened by the invocation
    runs,          \* invocations started so far
    last_init,     \* per tool: arguments of its last config init that saved (None before)
    \* ---- table rendering (output, format_table of either CLI) ----
    table_args,    \* the call of output: [cli, format, data, columns, headers]
    table_out,     \* what output printed (None before): [text] or [json]
    \* ---- callback plugin (review.CallbackModule) ----
    r_count,       \* events delivered so far
    r_event,       \* the last event delivered (None before)
    r_emitted      \* the display calls the handler of the last event made

httpVars == <<h_pc, h_req, h_result, h_prev>>
taskVars == <<pc, argv, args, task, last_len, stdout, stderr, error_msg, exit_code,
              requests, polls, srv_status, srv_raw, append_only, failed_at>>
crudVars == <<kind, remote, cargs, cpc, current, cout, cwarn, cerr, cexit, http_log>>
queryVars == <<qpc, qargs, sql, is_write, qout, qerr, qexit, db_log, db_data>>
mainVars == <<tool, margs, environ, cred_file, mpc, mconfig, mout, merr, mexit, io_log,
              runs, last_init>>
tableVars == <<table_args, table_out>>
reviewVars == <<r_count, r_event, r_emitted>>
vars == <<httpVars, taskVars, crudVars, queryVars, mainVars, tableVars, reviewVars>>

-----------------------------------------------------------------------------
(* Python values *)

None == [none |-> TRUE]
NoJson == [nojson |-> TRUE]

\* dict.get(key, default)
Get(d, key, default) == IF key \in DOMAIN d THEN d[key] ELSE default

\* dict with d[key] = value (added or replaced)
Put(d, key, value) == [k \in DOMAIN d \cup {key} |-> IF k = key THEN value ELSE d[k]]

\* A str whose characters matter is a sequence of symbols: single characters, or
\* whole words whose letters do not matter.
Whitespace == {" ", "\t", "\n"}

\* str.strip()
RECURSIVE lstrip(_)
lstrip(s) == IF s # <<>> /\ Head(s) \in Whitespace THEN lstrip(Tail(s)) ELSE s

RECURSIVE rstrip(_)
rstrip(s) ==
    IF s # <<>> /\ s[Len(s)] \in Whitespace THEN rstrip(SubSeq(s, 1, Len(s) - 1)) ELSE s

strip(s) == rstrip(lstrip(s))

\* str.find(sub) + 1: where sub first occurs in s, 0 when it does not
find(s, sub) ==
    LET At(i) == SubSeq(s, i, i + Len(sub) - 1) = sub
        places == {i \in 1..(Len(s) - Len(sub) + 1) : At(i)}
    IN  IF places = {} THEN 0 ELSE CHOOSE i \in places : \A j \in places : i <= j

EmptyBody == [text |-> <<>>, parsed |-> NoJson]
JsonBody(obj) == [text |-> <<"{", "}">>, parsed |-> obj]
TextBody(chars) == [text |-> chars, parsed |-> NoJson]

\* A response of the requests library: an exception raised, or a status and a body.
Response(code, body) == [exc |-> "none", status_code |-> code, body |-> body]
Raised(exc) == [exc |-> exc, status_code |-> 0, body |-> EmptyBody]

-----------------------------------------------------------------------------
(* semaphore_cli.py: constants *)

DEFAULT_TIMEOUT == 30
LONG_TIMEOUT == 120
TERMINAL_STATUSES == {"success", "error", "stopped", "rejected"}

VIEW_MAP ==
    [Backup |-> 2, Update |-> 3, Maintain |-> 4, Download |-> 5,
     Verify |-> 6, Restore |-> 7, Rollback |-> 7, Test |-> 7,
     Deploy |-> 8, Build |-> 8, Apply |-> 8, DR |-> 8,
     Setup |-> 9, Manage |-> 9]

-----------------------------------------------------------------------------
(* semaphore_cli.py: error() and api_request() *)

\* error(msg, detail): prints both to stderr and ends the process with code 1.
error(msg, detail) == [exit_code |-> 1, msg |-> msg, detail |-> detail]

Returns(value) == [value |-> value]

Exits(r) == "exit_code" \in DOMAIN r

api_request_401_as_403(method, path, url, resp, raw, timeout) ==
    IF resp.exc = "ConnectionError"
    THEN error([text |-> "Cannot connect to", url |-> url], <<"Check URL and network.">>)
    ELSE IF resp.exc = "Timeout"
    THEN error([text |-> "Request timed out after", timeout |-> timeout], <<>>)
    ELSE IF resp.status_code = 401 \/ resp.status_code = 403
    THEN error([text |-> "Permission denied"], <<>>)
    ELSE IF resp.status_code = 404
    THEN error([text |-> "Not found:", method |-> method, path |-> path], <<>>)
    ELSE IF resp.status_code = 409
    THEN error([text |-> "Conflict"], resp.body.text)
    ELSE IF resp.status_code = 422
    THEN error([text |-> "Validation error"], resp.body.text)
    ELSE IF resp.status_code >= 500
    THEN error([text |-> "Server error", code |-> resp.status_code], resp.body.text)
    ELSE IF resp.status_code >= 400
    THEN error([text |-> "HTTP", code |-> resp.status_code], resp.body.text)
    ELSE IF raw
    THEN Returns(resp.body.text)
    ELSE IF resp.body.text = <<>>
    THEN Returns(None)
    ELSE IF resp.body.parsed # NoJson
    THEN Returns(resp.body.parsed)
    ELSE Returns(resp.body.text)

api_request(method, path, url, resp, raw, timeout) ==
    IF resp.exc = "ConnectionError"
    THEN error([text |-> "Cannot connect to", url |-> url], <<"Check URL and network.">>)
    ELSE IF resp.exc = "Timeout"
    THEN error([text |-> "Request timed out after", timeout |-> timeout], <<>>)
    ELSE IF resp.status_code = 401
    THEN error([text |-> "Authentication failed"], <<"Check API token.">>)
    ELSE IF resp.status_code = 403
    THEN error([text |-> "Permission denied"], <<>>)
    ELSE IF resp.status_code = 404
    THEN error([text |-> "Not found:", method |-> method, path |-> path], <<>>)
    ELSE IF resp.status_code = 409
    THEN error([text |-> "Conflict"], resp.body.text)
    ELSE IF resp.status_code = 422
    THEN error([text |-> "Validation error"], resp.body.text)
    ELSE IF resp.status_code >= 500
    THEN error([text |-> "Server error", code |-> resp.status_code], resp.body.text)
    ELSE IF resp.status_code >= 400
    THEN error([text |-> "HTTP", code |-> resp.status_code], resp.body.text)
    ELSE IF raw
    THEN Returns(resp.body.text)
    ELSE IF resp.body.text = <<>>
    THEN Returns(None)
    ELSE IF resp.body.parsed # NoJson
    THEN Returns(resp.body.parsed)
    ELSE Returns(resp.body.text)

-----------------------------------------------------------------------------
(* The HTTP client on its own: api_request applied to every kind of answer. *)

HttpMethods == {"GET", "DELETE"}
HttpPaths == {"/api/ping"}
HttpUrl == "https://semaphore"
HttpExceptions == {"ConnectionError", "Timeout"}
HttpCodes == {200, 204, 302, 399, 400, 401, 403, 404, 409, 418, 422, 499, 500, 503}
HttpBodies == {EmptyBody, JsonBody([id |-> 1]), TextBody(<<"p">>)}
HttpResponses ==
    {Raised(e) : e \in HttpExceptions}
        \cup {Response(c, b) : c \in HttpCodes, b \in HttpBodies}

HttpIdle ==
    /\ h_pc = "idle"
    /\ h_req = None
    /\ h_result = None
    /\ h_prev = None

\* One use of the client, by any command: api_get / api_post / api_put / api_delete.
HttpCall ==
    \E method \in HttpMethods, path \in HttpPaths, resp \in HttpResponses,
       raw \in BOOLEAN, timeout \in {DEFAULT_TIMEOUT, LONG_TIMEOUT} :
        LET r == api_request(method, path, HttpUrl, resp, raw, timeout) IN
        /\ h_req' = [method |-> method, path |-> path, resp |-> resp,
                     raw |-> raw, timeout |-> timeout]
        /\ h_result' = r
        /\ h_prev' = IF h_pc = "idle" THEN None
                     ELSE [resp |-> h_req.resp,
                           msg |-> IF Exits(h_result) THEN h_result.msg ELSE None]
        /\ h_pc' = IF Exits(r) THEN "exited" ELSE "returned"
        /\ UNCHANGED <<taskVars, crudVars, queryVars, mainVars, tableVars, reviewVars>>

-----------------------------------------------------------------------------
(* C10: api_request ends the process with code 1 on every transport failure *)
(* and every status >= 400, with a message that differs between any two of  *)
(* the classes connection error, timeout, 401, 403, 404, 409, 422, 5xx and  *)
(* other 4xx; on a status below 400 it never errors and returns the raw     *)
(* text when raw is requested, else None for an empty body, else the parsed *)
(* JSON when the body parses, else the body text.                           *)

ErrClass(resp) ==
    IF resp.exc = "ConnectionError" THEN "connection"
    ELSE IF resp.exc = "Timeout" THEN "timeout"
    ELSE IF resp.status_code = 401 THEN "401"
    ELSE IF resp.status_code = 403 THEN "403"
    ELSE IF resp.status_code = 404 THEN "404"
    ELSE IF resp.status_code = 409 THEN "409"
    ELSE IF resp.status_code = 422 THEN "422"
    ELSE IF resp.status_code >= 500 THEN "5xx"
    ELSE IF resp.status_code >= 400 THEN "4xx"
    ELSE "ok"

C10_HttpClientContract ==
    h_pc # "idle" =>
        LET resp == h_req.resp IN
        /\ ErrClass(resp) # "ok" =>
            /\ Exits(h_result)
            /\ h_result.exit_code = 1
            /\ h_pc = "exited"
        /\ ErrClass(resp) = "ok" =>
            /\ ~Exits(h_result)
            /\ h_result.value =
                IF h_req.raw THEN resp.body.text
                ELSE IF resp.body.text = <<>> THEN None
                ELSE IF resp.body.parsed # NoJson THEN resp.body.parsed
                ELSE resp.body.text
        /\ (/\ h_prev # None
            /\ Exits(h_result)
            /\ h_prev.msg # None
            /\ ErrClass(resp) # ErrClass(h_prev.resp))
                => h_result.msg # h_prev.msg

\* A 403 answered after a 401: both ended the process, with different messages.
C10_Witness ==
    /\ h_prev # None
    /\ h_pc = "exited"
    /\ ErrClass(h_req.resp) = "403"
    /\ ErrClass(h_prev.resp) = "401"
    /\ h_result.msg # h_prev.msg

-----------------------------------------------------------------------------
(* semaphore_cli.py: cmd_task_run, run against a server whose task moves     *)
(* through its lifecycle and whose raw output changes while the CLI sleeps.  *)

MaxPolls == 3
MaxRaw == 2
RawChars == {"a", "b"}
NonTerminalStatuses == {"waiting", "running"}

RECURSIVE SeqsUpTo(_, _)
SeqsUpTo(S, n) ==
    IF n = 0 THEN {<<>>}
    ELSE LET shorter == SeqsUpTo(S, n - 1) IN
         shorter \cup {Append(q, c) : q \in {x \in shorter : Len(x) = n - 1}, c \in S}

IsPrefix(p, q) == Len(p) <= Len(q) /\ SubSeq(q, 1, Len(p)) = p

TaskUrl == "https://semaphore"
TaskBase == "/api/project/1/tasks"

\* Answers that make api_request end the process.
TaskFailures ==
    {Raised("ConnectionError"), Raised("Timeout"), Response(401, EmptyBody),
     Response(404, TextBody(<<"e">>)), Response(500, TextBody(<<"e">>))}

\* The answer is a transport failure or carries a status of 400 or more.
RequestFailed(resp) == resp.exc # "none" \/ resp.status_code >= 400

\* Where in the sequence of requests the first failed one stands.
first_failure(resp, at) ==
    IF at = 0 /\ RequestFailed(resp) THEN Len(requests) + 1 ELSE at

\* The task as the server serialises it: with its status, or without the field.
ServerTaskObjects(status) == {[id |-> 1, status |-> status], [id |-> 1]}

TaskIdle ==
    /\ pc = "idle"
    /\ argv = [wait |-> FALSE, tail |-> FALSE]
    /\ args = argv
    /\ task = None
    /\ last_len = 0
    /\ stdout = <<>>
    /\ stderr = <<>>
    /\ error_msg = None
    /\ exit_code = <<>>
    /\ requests = <<>>
    /\ polls = <<>>
    /\ srv_status = "absent"
    /\ srv_raw = <<>>
    /\ append_only = TRUE
    /\ failed_at = 0

\* `task run <id> [--wait] [--tail]`, parsed and with its config loaded.
TaskInit ==
    /\ pc = "main"
    /\ argv \in [wait : BOOLEAN, tail : BOOLEAN]
    /\ args = argv
    /\ task = None
    /\ last_len = 0
    /\ stdout = <<>>
    /\ stderr = <<>>
    /\ error_msg = None
    /\ exit_code = <<>>
    /\ requests = <<>>
    /\ polls = <<>>
    /\ srv_status = "absent"
    /\ srv_raw = <<>>
    /\ append_only = TRUE
    /\ failed_at = 0

\* main(): --tail implies --wait, then the handler is called.
main_task_run ==
    /\ pc = "main"
    /\ args' = [args EXCEPT !.wait = IF args.tail THEN TRUE ELSE args.wait]
    /\ pc' = "post"
    /\ UNCHANGED <<argv, task, last_len, stdout, stderr, error_msg, exit_code,
                   requests, polls, srv_status, srv_raw, append_only, failed_at>>

\* `if not (args.wait or args.tail)`: whether cmd_task_run goes on to poll.
waits_with_both_flags(a) == a.wait /\ a.tail

waits(a) == a.wait \/ a.tail

\* `if raw and len(raw) > last_len: write raw[last_len:]; last_len = len(raw)`
tail_output_rewrites(raw, written, length) ==
    IF raw # <<>>
    THEN [stderr |-> written \o raw, last_len |-> Len(raw)]
    ELSE [stderr |-> written, last_len |-> length]

tail_output(raw, written, length) ==
    IF raw # <<>> /\ Len(raw) > length
    THEN [stderr |-> written \o SubSeq(raw, length + 1, Len(raw)), last_len |-> Len(raw)]
    ELSE [stderr |-> written, last_len |-> length]

\* `sys.exit(0 if status == "success" else 2)`
exit_for(status) == IF status = "success" THEN 0 ELSE 2

\* `status = task.get("status", ""); if status in TERMINAL_STATUSES: ...`
\* On None, task.get raises AttributeError and the interpreter ends with code 1.
check_status_terminal_is_success(t, out) ==
    IF t = None
    THEN [pc |-> "exited", stdout |-> out, exit_code |-> <<1>>,
          error_msg |-> [text |-> "Traceback"]]
    ELSE LET status == Get(t, "status", "") IN
         IF status = "success"
         THEN [pc |-> "exited", stdout |-> Append(out, t),
               exit_code |-> <<exit_for(status)>>, error_msg |-> None]
         ELSE [pc |-> "sleep", stdout |-> out, exit_code |-> <<>>, error_msg |-> None]

check_status_missing_is_terminal(t, out) ==
    IF t = None
    THEN [pc |-> "exited", stdout |-> out, exit_code |-> <<1>>,
          error_msg |-> [text |-> "Traceback"]]
    ELSE LET status == Get(t, "status", "stopped") IN
         IF status \in TERMINAL_STATUSES
         THEN [pc |-> "exited", stdout |-> Append(out, t),
               exit_code |-> <<exit_for(status)>>, error_msg |-> None]
         ELSE [pc |-> "sleep", stdout |-> out, exit_code |-> <<>>, error_msg |-> None]

check_status(t, out) ==
    IF t = None
    THEN [pc |-> "exited", stdout |-> out, exit_code |-> <<1>>,
          error_msg |-> [text |-> "Traceback"]]
    ELSE LET status == Get(t, "status", "") IN
         IF status \in TERMINAL_STATUSES
         THEN [pc |-> "exited", stdout |-> Append(out, t),
               exit_code |-> <<exit_for(status)>>, error_msg |-> None]
         ELSE [pc |-> "sleep", stdout |-> out, exit_code |-> <<>>, error_msg |-> None]

\* cmd_task_run up to the loop: the run POST, then print and return, or go on.
task_run_post ==
    /\ pc = "post"
    /\ \E resp \in {Response(201, JsonBody(o)) : o \in ServerTaskObjects("waiting")}
                    \cup {Response(201, EmptyBody)} \cup TaskFailures :
        LET r == api_request("POST", TaskBase, TaskUrl, resp, FALSE, LONG_TIMEOUT) IN
        /\ requests' = Append(requests, <<"POST", "tasks">>)
        /\ failed_at' = first_failure(resp, failed_at)
        /\ srv_status' = IF Exits(r) THEN srv_status ELSE "waiting"
        /\ IF Exits(r)
           THEN /\ pc' = "exited"
                /\ exit_code' = <<r.exit_code>>
                /\ error_msg' = r.msg
                /\ UNCHANGED <<task, stdout>>
           ELSE /\ task' = r.value
                /\ IF ~waits(args)
                   THEN /\ stdout' = Append(stdout, r.value)
                        /\ pc' = "exited"
                        /\ exit_code' = <<0>>
                        /\ UNCHANGED error_msg
                   ELSE IF r.value = None
                   THEN \* task["id"] raises TypeError
                        /\ pc' = "exited"
                        /\ exit_code' = <<1>>
                        /\ error_msg' = [text |-> "Traceback"]
                        /\ UNCHANGED stdout
                   ELSE /\ pc' = "sleep"
                        /\ UNCHANGED <<stdout, exit_code, error_msg>>
    /\ last_len' = 0
    /\ UNCHANGED <<argv, args, stderr, polls, srv_raw, append_only>>

task_run_no_sleep ==
    /\ pc = "sleep"
    /\ Len(polls) < MaxPolls
    /\ pc' = "get_task"
    /\ UNCHANGED <<argv, args, task, last_len, stdout, stderr, error_msg, exit_code,
                   requests, polls, srv_status, srv_raw, append_only, failed_at>>

\* `time.sleep(poll)`
task_run_sleep ==
    /\ pc = "sleep"
    /\ Len(polls) < MaxPolls
    /\ requests' = Append(requests, <<"sleep">>)
    /\ pc' = "get_task"
    /\ UNCHANGED <<argv, args, task, last_len, stdout, stderr, error_msg, exit_code,
                   polls, srv_status, srv_raw, append_only, failed_at>>

task_run_get_status_retries ==
    /\ pc = "get_task"
    /\ \E resp \in {Response(200, JsonBody(o)) : o \in ServerTaskObjects(srv_status)}
                    \cup {Response(200, EmptyBody)} \cup TaskFailures :
        LET r == api_request("GET", TaskBase, TaskUrl, resp, FALSE, DEFAULT_TIMEOUT) IN
        /\ requests' = Append(requests, <<"GET", "task">>)
        /\ failed_at' = first_failure(resp, failed_at)
        /\ IF Exits(r)
           THEN /\ pc' = "sleep"
                /\ UNCHANGED <<task, stdout, polls, exit_code, error_msg>>
           ELSE /\ task' = r.value
                /\ polls' = IF r.value = None THEN polls
                            ELSE Append(polls, Get(r.value, "status", ""))
                /\ IF args.tail
                   THEN /\ pc' = "get_raw"
                        /\ UNCHANGED <<stdout, exit_code, error_msg>>
                   ELSE LET c == check_status(r.value, stdout) IN
                        /\ pc' = c.pc
                        /\ stdout' = c.stdout
                        /\ exit_code' = c.exit_code
                        /\ error_msg' = c.error_msg
    /\ UNCHANGED <<argv, args, last_len, stderr, srv_status, srv_raw, append_only>>

\* `task = api_get(f"{base}/{task_id}", config)`, and without --tail the status check.
task_run_get_status ==
    /\ pc = "get_task"
    /\ \E resp \in {Response(200, JsonBody(o)) : o \in ServerTaskObjects(srv_status)}
                    \cup {Response(200, EmptyBody)} \cup TaskFailures :
        LET r == api_request("GET", TaskBase, TaskUrl, resp, FALSE, DEFAULT_TIMEOUT) IN
        /\ requests' = Append(requests, <<"GET", "task">>)
        /\ failed_at' = first_failure(resp, failed_at)
        /\ IF Exits(r)
           THEN /\ pc' = "exited"
                /\ exit_code' = <<r.exit_code>>
                /\ error_msg' = r.msg
                /\ UNCHANGED <<task, stdout, polls>>
           ELSE /\ task' = r.value
                /\ polls' = IF r.value = None THEN polls
                            ELSE Append(polls, Get(r.value, "status", ""))
                /\ IF args.tail
                   THEN /\ pc' = "get_raw"
                        /\ UNCHANGED <<stdout, exit_code, error_msg>>
                   ELSE LET c == check_status(r.value, stdout) IN
                        /\ pc' = c.pc
                        /\ stdout' = c.stdout
                        /\ exit_code' = c.exit_code
                        /\ error_msg' = c.error_msg
    /\ UNCHANGED <<argv, args, last_len, stderr, srv_status, srv_raw, append_only>>

task_run_get_raw_skips_last_output ==
    /\ pc = "get_raw"
    /\ \E resp \in {Response(200, TextBody(srv_raw))} \cup TaskFailures :
        LET r == api_request("GET", TaskBase, TaskUrl, resp, TRUE, DEFAULT_TIMEOUT) IN
        /\ requests' = Append(requests, <<"GET", "raw_output">>)
        /\ failed_at' = first_failure(resp, failed_at)
        /\ IF Exits(r)
           THEN /\ pc' = "exited"
                /\ exit_code' = <<r.exit_code>>
                /\ error_msg' = r.msg
                /\ UNCHANGED <<stdout, stderr, last_len>>
           ELSE LET w == IF task # None /\ Get(task, "status", "") \in TERMINAL_STATUSES
                         THEN [stderr |-> stderr, last_len |-> last_len]
                         ELSE tail_output(r.value, stderr, last_len)
                    c == check_status(task, stdout) IN
                /\ stderr' = w.stderr
                /\ last_len' = w.last_len
                /\ pc' = c.pc
                /\ stdout' = c.stdout
                /\ exit_code' = c.exit_code
                /\ error_msg' = c.error_msg
    /\ UNCHANGED <<argv, args, task, polls, srv_status, srv_raw, append_only>>

\* `raw = api_get(f"{base}/{task_id}/raw_output", config, raw=True)`, the write of
\* the new suffix, and the status check.
task_run_get_raw ==
    /\ pc = "get_raw"
    /\ \E resp \in {Response(200, TextBody(srv_raw))} \cup TaskFailures :
        LET r == api_request("GET", TaskBase, TaskUrl, resp, TRUE, DEFAULT_TIMEOUT) IN
        /\ requests' = Append(requests, <<"GET", "raw_output">>)
        /\ failed_at' = first_failure(resp, failed_at)
        /\ IF Exits(r)
           THEN /\ pc' = "exited"
                /\ exit_code' = <<r.exit_code>>
                /\ error_msg' = r.msg
                /\ UNCHANGED <<stdout, stderr, last_len>>
           ELSE LET w == tail_output(r.value, stderr, last_len)
                    c == check_status(task, stdout) IN
                /\ stderr' = w.stderr
                /\ last_len' = w.last_len
                /\ pc' = c.pc
                /\ stdout' = c.stdout
                /\ exit_code' = c.exit_code
                /\ error_msg' = c.error_msg
    /\ UNCHANGED <<argv, args, task, polls, srv_status, srv_raw, append_only>>

\* The server moves the task on; a terminal status is final.  The CLI sees the
\* server only through its answers, so the server's moves are taken where a
\* request is about to read them.
server_step ==
    /\ pc = "get_task"
    /\ srv_status \in NonTerminalStatuses
    /\ \E s \in (NonTerminalStatuses \cup TERMINAL_STATUSES) \ {srv_status, "waiting"} :
        srv_status' = s
    /\ UNCHANGED <<pc, argv, args, task, last_len, stdout, stderr, error_msg, exit_code,
                   requests, polls, srv_raw, append_only, failed_at>>

\* The task's raw output grows by one character.
server_append ==
    /\ pc \in {"get_task", "get_raw"}
    /\ args.tail
    /\ Len(srv_raw) < MaxRaw
    /\ \E c \in RawChars : srv_raw' = Append(srv_raw, c)
    /\ UNCHANGED <<pc, argv, args, task, last_len, stdout, stderr, error_msg, exit_code,
                   requests, polls, srv_status, append_only, failed_at>>

\* The task's raw output changes otherwise than by appending (truncated, replaced).
server_rewrite ==
    /\ pc \in {"get_task", "get_raw"}
    /\ args.tail
    /\ srv_raw # <<>>
    /\ \E q \in SeqsUpTo(RawChars, MaxRaw) :
        /\ ~IsPrefix(srv_raw, q)
        /\ srv_raw' = q
    /\ append_only' = FALSE
    /\ UNCHANGED <<pc, argv, args, task, last_len, stdout, stderr, error_msg, exit_code,
                   requests, polls, srv_status, failed_at>>

NextTask ==
    \/ (main_task_run /\ UNCHANGED <<httpVars, crudVars, queryVars, mainVars, tableVars, reviewVars>>)
    \/ (task_run_post /\ UNCHANGED <<httpVars, crudVars, queryVars, mainVars, tableVars, reviewVars>>)
    \/ (task_run_sleep /\ UNCHANGED <<httpVars, crudVars, queryVars, mainVars, tableVars, reviewVars>>)
    \/ (task_run_get_status /\ UNCHANGED <<httpVars, crudVars, queryVars, mainVars, tableVars, reviewVars>>)
    \/ (task_run_get_raw /\ UNCHANGED <<httpVars, crudVars, queryVars, mainVars, tableVars, reviewVars>>)
    \/ (server_step /\ UNCHANGED <<httpVars, crudVars, queryVars, mainVars, tableVars, reviewVars>>)
    \/ (server_append /\ UNCHANGED <<httpVars, crudVars, queryVars, mainVars, tableVars, reviewVars>>)
    \/ (server_rewrite /\ UNCHANGED <<httpVars, crudVars, queryVars, mainVars, tableVars, reviewVars>>)

\* cmd_task_run is one sequential process: each of its steps returns (the sleep
\* ends, a request is answered or raises within its timeout), so the process
\* takes its next step whenever it has one.  The server owes no step.
cli_step ==
    /\ \/ main_task_run
       \/ task_run_post
       \/ task_run_sleep
       \/ task_run_get_status
       \/ task_run_get_raw
    /\ UNCHANGED <<httpVars, crudVars, queryVars, mainVars, tableVars, reviewVars>>

-----------------------------------------------------------------------------
(* Claims about task run *)

Last(q) == q[Len(q)]

Waiting == argv.wait \/ argv.tail

PostRequest == <<"POST", "tasks">>
SleepStep == <<"sleep">>
StatusRequest == <<"GET", "task">>
RawRequest == <<"GET", "raw_output">>

\* api_request ended the process (not an uncaught exception of the handler).
ApiFailed(msg) == msg # None /\ msg.text # "Traceback"

(* C1: with waiting enabled, the poll loop stops at the first poll whose     *)
(* fetched status is terminal: no status is fetched after a terminal one,    *)
(* the poll that fetched it (its requests succeeding) prints that task and   *)
(* ends the process with 0 for "success" and 2 otherwise, and the process    *)
(* never ends with 0 or 2 while the last fetched status is non-terminal.     *)
C1_PollLoopStopsAtTerminal ==
    Waiting =>
        /\ \A i \in 1..(Len(polls) - 1) : polls[i] \notin TERMINAL_STATUSES
        /\ (polls # <<>> /\ Last(polls) \in TERMINAL_STATUSES) =>
            \/ pc = "get_raw"
            \/ /\ pc = "exited"
               /\ \/ exit_code \in {<<0>>, <<2>>}
                  \/ /\ exit_code = <<1>>
                     /\ Last(requests) = RawRequest
                     /\ ApiFailed(error_msg)
        /\ exit_code \in {<<0>>, <<2>>} =>
            /\ polls # <<>>
            /\ Last(polls) \in TERMINAL_STATUSES
            /\ task = [id |-> 1, status |-> Last(polls)]
            /\ stdout = <<task>>
            /\ (exit_code = <<0>>) <=> (Last(polls) = "success")

C1_Witness ==
    /\ Waiting
    /\ polls = <<"waiting", "running", "stopped">>
    /\ exit_code = <<2>>
    /\ stdout = <<[id |-> 1, status |-> "stopped"]>>

(* C2: when the server reports k non-terminal statuses and then a terminal   *)
(* one and every request succeeds, the run issues one POST and then exactly  *)
(* k+1 status GETs, each directly preceded by one sleep; with --wait and no  *)
(* --tail these are all its requests, so none follows the terminal status.   *)
C2_PollCount ==
    (Waiting /\ exit_code \in {<<0>>, <<2>>}) =>
        LET k == Cardinality({i \in DOMAIN polls : polls[i] \notin TERMINAL_STATUSES})
            gets == {i \in DOMAIN requests : requests[i] = StatusRequest}
            sleeps == {i \in DOMAIN requests : requests[i] = SleepStep}
            posts == {i \in DOMAIN requests : requests[i] = PostRequest}
        IN  /\ Len(polls) = k + 1
            /\ posts = {1}
            /\ Cardinality(gets) = k + 1
            /\ Cardinality(sleeps) = k + 1
            /\ \A i \in gets : requests[i - 1] = SleepStep
            /\ ~argv.tail =>
                /\ Len(requests) = 1 + 2 * (k + 1)
                /\ Last(requests) = StatusRequest

C2_Witness ==
    /\ argv = [wait |-> TRUE, tail |-> FALSE]
    /\ polls = <<"running", "success">>
    /\ requests = <<PostRequest, SleepStep, StatusRequest, SleepStep, StatusRequest>>
    /\ stdout = <<[id |-> 1, status |-> "success"]>>
    /\ exit_code = <<0>>

(* C3: task run polls if and only if --wait or --tail was given; with        *)
(* neither, its only request is the run POST, and when that succeeds it      *)
(* prints the object the POST returned and ends with code 0.                 *)
C3_WaitOrTail ==
    /\ (pc \in {"sleep", "get_task", "get_raw"} \/ Len(requests) > 1) => Waiting
    /\ ~Waiting =>
        /\ \A i \in DOMAIN requests : requests[i] = PostRequest
        /\ (pc = "exited" /\ error_msg = None) =>
            /\ requests = <<PostRequest>>
            /\ stdout = <<task>>
            /\ exit_code = <<0>>
    /\ (Waiting /\ pc = "exited" /\ Len(requests) = 1) =>
        /\ exit_code = <<1>>
        /\ stdout = <<>>
        /\ error_msg # None
        /\ (task # None => ApiFailed(error_msg))

C3_Witness ==
    /\ argv = [wait |-> FALSE, tail |-> FALSE]
    /\ requests = <<PostRequest>>
    /\ stdout = <<[id |-> 1, status |-> "waiting"]>>
    /\ exit_code = <<0>>

(* C4: in tail mode a poll that fetched the raw output writes to stderr      *)
(* exactly the part of it beyond the length already written, and nothing     *)
(* (keeping the length) when it is not longer; what was written is always as *)
(* long as the recorded length, so no position is written twice; and while   *)
(* the server's raw output has only grown by appending, everything written   *)
(* so far equals the raw output the last poll fetched.                       *)
RawFetched == pc = "get_raw" /\ requests' # requests /\ ~ApiFailed(error_msg')

C4_TailState ==
    /\ Len(stderr) = last_len
    /\ (/\ append_only
        /\ pc \in {"sleep", "exited"}
        /\ requests # <<>>
        /\ Last(requests) = RawRequest
        /\ ~ApiFailed(error_msg)) => stderr = srv_raw

C4_TailStep ==
    /\ RawFetched =>
        IF Len(srv_raw) > last_len
        THEN /\ stderr' = stderr \o SubSeq(srv_raw, last_len + 1, Len(srv_raw))
             /\ last_len' = Len(srv_raw)
        ELSE /\ stderr' = stderr
             /\ last_len' = last_len
    /\ ~RawFetched => (stderr' = stderr /\ last_len' = last_len)

C4_TailWritesNewSuffix == [](C4_TailState) /\ [][C4_TailStep]_vars

C4_Witness ==
    /\ append_only
    /\ pc = "sleep"
    /\ Cardinality({i \in DOMAIN requests : requests[i] = RawRequest}) = 3
    /\ srv_raw = <<"a", "b">>
    /\ stderr = <<"a", "b">>
    /\ last_len = 2

(* C25: no request of task run is retried: once a request met a transport   *)
(* failure or a status of 400 or more, the process has ended with code 1    *)
(* and that request is the last one it issued, in the run POST as in the    *)
(* status and raw-output requests of the poll loop; a run that ended with   *)
(* code 0 or 2 had no failed request.                                       *)
C25_NoRetry ==
    /\ failed_at # 0 =>
        /\ pc = "exited"
        /\ exit_code = <<1>>
        /\ failed_at = Len(requests)
        /\ requests[failed_at] # SleepStep
    /\ exit_code \in {<<0>>, <<2>>} => failed_at = 0

\* The raw-output request of the second poll failed, after a terminal status.
C25_Witness ==
    /\ polls = <<"running", "success">>
    /\ requests = <<PostRequest, SleepStep, StatusRequest, RawRequest,
                    SleepStep, StatusRequest, RawRequest>>
    /\ failed_at = 7
    /\ exit_code = <<1>>
    /\ stdout = <<>>

(* C26: the poll loop has no bound of its own.  A waiting run whose requests *)
(* all succeeded has ended only after a poll that fetched a terminal status  *)
(* (a task object without a status field is not terminal); while it has not  *)
(* ended it sleeps and polls again, so that a run still polling after any    *)
(* number of polls exists; and when from some poll on the server reports a   *)
(* terminal status, the run eventually ends.                                 *)
C26_ExitsOnlyOnTerminal ==
    (Waiting /\ pc = "exited" /\ failed_at = 0 /\ error_msg = None) =>
        /\ polls # <<>>
        /\ Last(polls) \in TERMINAL_STATUSES

C26_KeepsPolling ==
    \A n \in 0..(MaxPolls - 1) :
        (Waiting /\ pc = "sleep" /\ Len(polls) = n) ~> (Len(polls) > n \/ pc = "exited")

\* The server's task is terminal and no poll since has been told otherwise.
TerminalReported ==
    /\ srv_status \in TERMINAL_STATUSES
    /\ \/ pc \in {"get_task", "exited"}
       \/ (polls # <<>> /\ Last(polls) \in TERMINAL_STATUSES)

C26_PollsUntilTerminal ==
    /\ [](C26_ExitsOnlyOnTerminal)
    /\ C26_KeepsPolling
    /\ (<>[]TerminalReported) => <>(pc = "exited")

\* Still polling after MaxPolls polls, one of them answered without a status.
C26_Witness ==
    /\ Waiting
    /\ pc = "sleep"
    /\ Len(polls) = MaxPolls
    /\ \A i \in DOMAIN polls : polls[i] \notin TERMINAL_STATUSES
    /\ \E i \in DOMAIN polls : polls[i] = ""
    /\ failed_at = 0
    /\ exit_code = <<>>

(* C30: with --tail every poll fetches the status and then the raw output:  *)
(* each raw-output request directly follows a status request and each       *)
(* answered status request is directly followed by a raw-output request,    *)
(* also in the poll that fetched a terminal status; the task is printed     *)
(* only in the step that fetched the raw output and wrote its new part; so  *)
(* a run that ended with 0 or 2 after the server's output only grew has     *)
(* written all of the output the server holds.                              *)
C30_TailState ==
    argv.tail =>
        /\ \A i \in DOMAIN requests :
            /\ requests[i] = RawRequest => (i > 1 /\ requests[i - 1] = StatusRequest)
            /\ (requests[i] = StatusRequest /\ i < Len(requests)) =>
                    requests[i + 1] = RawRequest
        /\ pc = "get_raw" => (stdout = <<>> /\ Last(requests) = StatusRequest)
        /\ exit_code \in {<<0>>, <<2>>} =>
            /\ Last(requests) = RawRequest
            /\ stdout = <<task>>
            /\ Len(stderr) = last_len
            /\ append_only => stderr = srv_raw

C30_PrintStep ==
    (argv.tail /\ stdout' # stdout) =>
        /\ pc = "get_raw"
        /\ requests' = Append(requests, RawRequest)
        /\ last_len' = IF srv_raw # <<>> /\ Len(srv_raw) > last_len
                       THEN Len(srv_raw) ELSE last_len
        /\ exit_code' \in {<<0>>, <<2>>}

C30_StatusThenOutput == [](C30_TailState) /\ [][C30_PrintStep]_vars

\* The second poll fetched "success" and then the whole output.
C30_Witness ==
    /\ argv.tail
    /\ append_only
    /\ requests = <<PostRequest, SleepStep, StatusRequest, RawRequest,
                    SleepStep, StatusRequest, RawRequest>>
    /\ polls = <<"running", "success">>
    /\ srv_raw = <<"a", "b">>
    /\ stderr = <<"a", "b">>
    /\ stdout = <<[id |-> 1, status |-> "success"]>>
    /\ exit_code = <<0>>

-----------------------------------------------------------------------------
(* semaphore_cli.py: the update and delete commands.  Two invocations of the *)
(* CLI run at once against the same remote record; the server handles one    *)
(* request at a time.  In a name the symbol "-" stands for the em-dash of    *)
(* the naming convention, so that " - " is its separator.                    *)

MaxSupplied == 2
Procs == {1, 2}
Kinds == {"template", "schedule", "env", "integration"}
Absent == [absent |-> TRUE]
CrudUrl == "https://semaphore"
SEP == <<" ", "-", " ">>

InitialName == <<"Backup">> \o SEP \o <<"db">>
NameGiven(p) == IF p = 1 THEN <<"Deploy">> \o SEP \o <<"db">> ELSE <<"db">>

InitialRecord(k) ==
    CASE k = "template" ->
            [id |-> 1, name |-> InitialName, playbook |-> 0, inventory_id |-> 0,
             repository_id |-> 0, environment_id |-> 0, view_id |-> 2,
             arguments |-> 0, description |-> 0]
      [] k = "schedule" ->
            [id |-> 1, template_id |-> 0, cron_format |-> 0, name |-> InitialName,
             active |-> TRUE]
      [] k = "env" -> [id |-> 1, name |-> InitialName, json |-> 0, env |-> 0]
      [] k = "integration" -> [id |-> 1, name |-> InitialName, template_id |-> 0]

\* Options of the update subcommands that take a value.
UpdateOptions(k) ==
    CASE k = "template" ->
            {"name", "playbook", "inventory_id", "environment_id", "view_id",
             "arguments", "description"}
      [] k = "schedule" -> {"cron", "name"}
      [] k = "env" -> {"name", "json_vars"}
      [] k = "integration" -> {}

\* The values invocation p gives for the options in S.
OptionsGiven(p, S) == [o \in S |-> IF o = "name" THEN NameGiven(p) ELSE p]

UpdateCommands(k, p) ==
    {[cmd |-> "update", confirm |-> FALSE, opts |-> OptionsGiven(p, S),
      active |-> a, inactive |-> i] :
        S \in {T \in SUBSET UpdateOptions(k) : Cardinality(T) <= MaxSupplied},
        a \in (IF k = "schedule" THEN BOOLEAN ELSE {FALSE}),
        i \in (IF k = "schedule" THEN BOOLEAN ELSE {FALSE})}

DeleteCommands ==
    {[cmd |-> "delete", confirm |-> c, opts |-> <<>>, active |-> FALSE,
      inactive |-> FALSE] : c \in BOOLEAN}

Commands(k, p) ==
    IF k = "integration" THEN DeleteCommands ELSE UpdateCommands(k, p) \cup DeleteCommands

\* base = f"/api/project/{args.project}/<family>/{id}"
ResourcePath(k) ==
    CASE k = "template" -> "/api/project/1/templates/1"
      [] k = "schedule" -> "/api/project/1/schedules/1"
      [] k = "env" -> "/api/project/1/environment/1"
      [] k = "integration" -> "/api/project/1/integrations/1"

TargetLabel(k) ==
    CASE k = "template" -> "Template"
      [] k = "schedule" -> "Schedule"
      [] k = "env" -> "Environment"
      [] k = "integration" -> "Integration"

\* `if args.<opt> is not None: current[<field>] = args.<opt>`
SetIfGiven(cur, o, opt, field) ==
    IF opt \in DOMAIN o THEN Put(cur, field, o[opt]) ELSE cur

\* cmd_template_update: the assignments to `current`
template_update_fields_drops_playbook(cur, a) ==
    LET c1 == SetIfGiven(cur, a.opts, "name", "name")
        c3 == SetIfGiven(c1, a.opts, "inventory_id", "inventory_id")
        c4 == SetIfGiven(c3, a.opts, "environment_id", "environment_id")
        c5 == SetIfGiven(c4, a.opts, "view_id", "view_id")
        c6 == SetIfGiven(c5, a.opts, "arguments", "arguments")
    IN  SetIfGiven(c6, a.opts, "description", "description")

template_update_fields(cur, a) ==
    LET c1 == SetIfGiven(cur, a.opts, "name", "name")
        c2 == SetIfGiven(c1, a.opts, "playbook", "playbook")
        c3 == SetIfGiven(c2, a.opts, "inventory_id", "inventory_id")
        c4 == SetIfGiven(c3, a.opts, "environment_id", "environment_id")
        c5 == SetIfGiven(c4, a.opts, "view_id", "view_id")
        c6 == SetIfGiven(c5, a.opts, "arguments", "arguments")
    IN  SetIfGiven(c6, a.opts, "description", "description")

\* cmd_schedule_update: the assignments to `current`
schedule_update_fields_assigns_flag(cur, a) ==
    LET c1 == SetIfGiven(cur, a.opts, "cron", "cron_format")
        c2 == SetIfGiven(c1, a.opts, "name", "name")
    IN  Put(c2, "active", a.active /\ ~a.inactive)

schedule_update_fields(cur, a) ==
    LET c1 == SetIfGiven(cur, a.opts, "cron", "cron_format")
        c2 == SetIfGiven(c1, a.opts, "name", "name")
        c3 == IF a.active THEN Put(c2, "active", TRUE) ELSE c2
    IN  IF a.inactive THEN Put(c3, "active", FALSE) ELSE c3

\* cmd_env_update: the assignments to `current`
env_update_fields(cur, a) ==
    LET c1 == SetIfGiven(cur, a.opts, "name", "name")
    IN  SetIfGiven(c1, a.opts, "json_vars", "json")

update_fields(k, cur, a) ==
    CASE k = "template" -> template_update_fields(cur, a)
      [] k = "schedule" -> schedule_update_fields(cur, a)
      [] k = "env" -> env_update_fields(cur, a)

\* _validate_template_name(name, view_id): the list of warnings
MissingDash == [text |-> "missing em-dash"]
VerbMismatch(verb, expected, got) ==
    [text |-> "maps to view", verb |-> verb, expected |-> expected, got |-> got]

\* VIEW_MAP.get(verb): <<view>>, or <<>> for None
view_of(verb) ==
    IF Len(verb) = 1 /\ verb[1] \in DOMAIN VIEW_MAP THEN <<VIEW_MAP[verb[1]]>> ELSE <<>>

_validate_template_name_unstripped(name, view_id) ==
    IF find(name, SEP) = 0
    THEN <<MissingDash>>
    ELSE LET verb == SubSeq(name, 1, find(name, SEP) - 1)
             expected == view_of(verb)
         IN  IF expected # <<>> /\ expected[1] # view_id
             THEN <<VerbMismatch(verb, expected[1], view_id)>>
             ELSE <<>>

_validate_template_name(name, view_id) ==
    IF find(name, SEP) = 0
    THEN <<MissingDash>>
    ELSE LET verb == strip(SubSeq(name, 1, find(name, SEP) - 1))
             expected == view_of(verb)
         IN  IF expected # <<>> /\ expected[1] # view_id
             THEN <<VerbMismatch(verb, expected[1], view_id)>>
             ELSE <<>>

\* What the server answers to a request on the record, unless the connection fails.
ServerAnswer(method, rec) ==
    IF rec = Absent THEN Response(404, EmptyBody)
    ELSE IF method = "GET" THEN Response(200, JsonBody(rec))
    ELSE Response(204, EmptyBody)

Answers(method, rec) == {ServerAnswer(method, rec), Raised("ConnectionError")}

LogEntry(p, method, path, body, r) ==
    [proc |-> p, method |-> method, path |-> path, body |-> body,
     ok |-> ~Exits(r), result |-> IF Exits(r) THEN None ELSE r.value]

CrudIdle ==
    /\ kind = "template"
    /\ remote = Absent
    /\ cargs = [p \in Procs |-> None]
    /\ cpc = [p \in Procs |-> "idle"]
    /\ current = [p \in Procs |-> None]
    /\ cout = [p \in Procs |-> <<>>]
    /\ cwarn = [p \in Procs |-> <<>>]
    /\ cerr = [p \in Procs |-> None]
    /\ cexit = [p \in Procs |-> <<>>]
    /\ http_log = <<>>

\* Two invocations, parsed and with their config loaded, about to call their handler.
CrudInit ==
    /\ kind \in Kinds
    /\ remote = InitialRecord(kind)
    /\ cargs \in [Procs -> UNION {Commands(kind, p) : p \in Procs}]
    /\ \A p \in Procs : cargs[p] \in Commands(kind, p)
    /\ cpc = [p \in Procs |-> cargs[p].cmd]
    /\ current = [p \in Procs |-> None]
    /\ cout = [p \in Procs |-> <<>>]
    /\ cwarn = [p \in Procs |-> <<>>]
    /\ cerr = [p \in Procs |-> None]
    /\ cexit = [p \in Procs |-> <<>>]
    /\ http_log = <<>>

\* error(): print, then sys.exit(1)
CrudFail(p, r) ==
    /\ cerr' = [cerr EXCEPT ![p] = [msg |-> r.msg, detail |-> r.detail]]
    /\ cexit' = [cexit EXCEPT ![p] = <<r.exit_code>>]
    /\ cpc' = [cpc EXCEPT ![p] = "exited"]

\* cmd_*_update: `current = api_get(base, config)`, the assignments, the warnings
update_get(p) ==
    /\ cpc[p] = "update"
    /\ \E resp \in Answers("GET", remote) :
        LET path == ResourcePath(kind)
            r == api_request("GET", path, CrudUrl, resp, FALSE, DEFAULT_TIMEOUT) IN
        /\ http_log' = Append(http_log, LogEntry(p, "GET", path, None, r))
        /\ IF Exits(r)
           THEN /\ CrudFail(p, r)
                /\ UNCHANGED <<current, cwarn>>
           ELSE LET merged == update_fields(kind, r.value, cargs[p]) IN
                /\ current' = [current EXCEPT ![p] = merged]
                /\ cwarn' = [cwarn EXCEPT ![p] =
                                IF kind = "template"
                                THEN _validate_template_name(
                                        merged.name, Get(merged, "view_id", 0))
                                ELSE <<>>]
                /\ cpc' = [cpc EXCEPT ![p] = "put"]
                /\ UNCHANGED <<cerr, cexit>>
    /\ UNCHANGED <<kind, remote, cargs, cout>>

\* cmd_*_update: `api_put(base, config, current)`
update_put(p) ==
    /\ cpc[p] = "put"
    /\ \E resp \in Answers("PUT", remote) :
        LET path == ResourcePath(kind)
            r == api_request("PUT", path, CrudUrl, resp, FALSE, DEFAULT_TIMEOUT) IN
        /\ http_log' = Append(http_log, LogEntry(p, "PUT", path, current[p], r))
        /\ IF Exits(r)
           THEN /\ CrudFail(p, r)
                /\ UNCHANGED remote
           ELSE /\ remote' = current[p]
                /\ cpc' = [cpc EXCEPT ![p] = "reget"]
                /\ UNCHANGED <<cerr, cexit>>
    /\ UNCHANGED <<kind, cargs, current, cout, cwarn>>

\* cmd_*_update: `updated = api_get(base, config); output(updated, args)`
update_reget(p) ==
    /\ cpc[p] = "reget"
    /\ \E resp \in Answers("GET", remote) :
        LET path == ResourcePath(kind)
            r == api_request("GET", path, CrudUrl, resp, FALSE, DEFAULT_TIMEOUT) IN
        /\ http_log' = Append(http_log, LogEntry(p, "GET", path, None, r))
        /\ IF Exits(r)
           THEN /\ CrudFail(p, r)
                /\ UNCHANGED cout
           ELSE /\ cout' = [cout EXCEPT ![p] = Append(cout[p], r.value)]
                /\ cexit' = [cexit EXCEPT ![p] = <<0>>]
                /\ cpc' = [cpc EXCEPT ![p] = "exited"]
                /\ UNCHANGED cerr
    /\ UNCHANGED <<kind, remote, cargs, current, cwarn>>

\* `if not args.confirm:` of the delete handlers
needs_lookup_when_confirmed(a) == a.confirm

needs_lookup(a) == ~a.confirm

\* cmd_*_delete without --confirm: GET the target, then error() naming it
delete_unconfirmed(p) ==
    /\ cpc[p] = "delete"
    /\ needs_lookup(cargs[p])
    /\ \E resp \in Answers("GET", remote) :
        LET path == ResourcePath(kind)
            r == api_request("GET", path, CrudUrl, resp, FALSE, DEFAULT_TIMEOUT) IN
        /\ http_log' = Append(http_log, LogEntry(p, "GET", path, None, r))
        /\ IF Exits(r)
           THEN CrudFail(p, r)
           ELSE CrudFail(p, error([text |-> "Delete requires --confirm flag"],
                                  [target |-> TargetLabel(kind), id |-> 1,
                                   name |-> Get(r.value, "name", <<"?">>)]))
    /\ UNCHANGED <<kind, remote, cargs, current, cout, cwarn>>

\* cmd_*_delete with --confirm: DELETE, then print the confirmation
delete_confirmed(p) ==
    /\ cpc[p] = "delete"
    /\ ~needs_lookup(cargs[p])
    /\ \E resp \in Answers("DELETE", remote) :
        LET path == ResourcePath(kind)
            r == api_request("DELETE", path, CrudUrl, resp, FALSE, DEFAULT_TIMEOUT) IN
        /\ http_log' = Append(http_log, LogEntry(p, "DELETE", path, None, r))
        /\ IF Exits(r)
           THEN /\ CrudFail(p, r)
                /\ UNCHANGED <<remote, cout>>
           ELSE /\ remote' = Absent
                /\ cout' = [cout EXCEPT ![p] =
                              <<[status |-> "ok", deleted |-> kind, id |-> 1]>>]
                /\ cexit' = [cexit EXCEPT ![p] = <<0>>]
                /\ cpc' = [cpc EXCEPT ![p] = "exited"]
                /\ UNCHANGED cerr
    /\ UNCHANGED <<kind, cargs, current, cwarn>>

NextCrud ==
    \/ \E p \in Procs : update_get(p) /\ UNCHANGED <<httpVars, taskVars, queryVars, mainVars, tableVars, reviewVars>>
    \/ \E p \in Procs : update_put(p) /\ UNCHANGED <<httpVars, taskVars, queryVars, mainVars, tableVars, reviewVars>>
    \/ \E p \in Procs : update_reget(p) /\ UNCHANGED <<httpVars, taskVars, queryVars, mainVars, tableVars, reviewVars>>
    \/ \E p \in Procs : delete_unconfirmed(p) /\ UNCHANGED <<httpVars, taskVars, queryVars, mainVars, tableVars, reviewVars>>
    \/ \E p \in Procs : delete_confirmed(p) /\ UNCHANGED <<httpVars, taskVars, queryVars, mainVars, tableVars, reviewVars>>

-----------------------------------------------------------------------------
(* Claims about update and delete *)

\* The requests of invocation p, in order.
ProcLog(p) == SelectSeq(http_log, LAMBDA e : e.proc = p)

IsDelete(p) == cargs[p].cmd = "delete"
IsUpdate(p) == cargs[p].cmd = "update"

(* C5: a delete command issues a DELETE if and only if --confirm is given.   *)
(* Without --confirm its only request is one GET of the target, it ends with *)
(* code 1 having printed an error (which names the target when the GET       *)
(* returned it), and no step of it changes the remote record.                *)
C5_DeleteState ==
    \A p \in Procs : IsDelete(p) =>
        LET t == ProcLog(p) IN
        /\ (\E i \in DOMAIN t : t[i].method = "DELETE") => cargs[p].confirm
        /\ cpc[p] = "exited" =>
            /\ Len(t) = 1
            /\ t[1].path = ResourcePath(kind)
            /\ IF cargs[p].confirm
               THEN t[1].method = "DELETE"
               ELSE /\ t[1].method = "GET"
                    /\ cexit[p] = <<1>>
                    /\ cout[p] = <<>>
                    /\ cerr[p] # None
                    /\ t[1].ok =>
                        /\ cerr[p].msg = [text |-> "Delete requires --confirm flag"]
                        /\ cerr[p].detail.target = TargetLabel(kind)
                        /\ cerr[p].detail.name = t[1].result.name

C5_DeleteStep ==
    \A p \in Procs :
        (IsDelete(p) /\ ~cargs[p].confirm /\ cpc'[p] # cpc[p]) => remote' = remote

C5_DeleteNeedsConfirm == [](C5_DeleteState) /\ [][C5_DeleteStep]_vars

\* `schedule delete 1` without --confirm: one GET, the error names the schedule.
C5_Witness ==
    /\ kind = "schedule"
    /\ cargs[1] \in DeleteCommands
    /\ ~cargs[1].confirm
    /\ cexit[1] = <<1>>
    /\ Len(ProcLog(1)) = 1
    /\ ProcLog(1)[1].method = "GET"
    /\ ProcLog(1)[1].ok
    /\ cerr[1].detail.name = InitialName
    /\ remote = InitialRecord("schedule")

(* C6: an update command issues GET, PUT, GET on the same path, in that      *)
(* order and nothing after a failed request (so no PUT when the first GET    *)
(* fails); the PUT body is the object the first GET returned with exactly    *)
(* the given fields replaced (`active` only on --active or --inactive); the  *)
(* object printed is the one the second GET returned.                        *)
FieldOf(opt) ==
    IF opt = "cron" THEN "cron_format" ELSE IF opt = "json_vars" THEN "json" ELSE opt

\* The fields an invocation gives explicitly, with their values.
Supplied(k, a) ==
    LET given == [f \in {FieldOf(o) : o \in DOMAIN a.opts} |->
                    a.opts[CHOOSE o \in DOMAIN a.opts : FieldOf(o) = f]]
    IN  IF k = "schedule" /\ (a.active \/ a.inactive)
        THEN Put(given, "active", ~a.inactive)
        ELSE given

Overlay(got, sup) ==
    [f \in DOMAIN got \cup DOMAIN sup |-> IF f \in DOMAIN sup THEN sup[f] ELSE got[f]]

C6_UpdateReadModifyWrite ==
    \A p \in Procs : IsUpdate(p) =>
        LET t == ProcLog(p) IN
        /\ Len(t) <= 3
        /\ \A i \in DOMAIN t :
            /\ t[i].path = ResourcePath(kind)
            /\ t[i].method = <<"GET", "PUT", "GET">>[i]
        /\ \A i \in 2..Len(t) : t[i - 1].ok
        /\ Len(t) >= 2 => t[2].body = Overlay(t[1].result, Supplied(kind, cargs[p]))
        /\ cexit[p] = <<0>> =>
            /\ Len(t) = 3
            /\ t[3].ok
            /\ cout[p] = <<t[3].result>>
        /\ cout[p] # <<>> => cexit[p] = <<0>>

\* `schedule update 1 --cron ...` alone: cron_format replaced, active untouched.
C6_Witness ==
    /\ kind = "schedule"
    /\ IsUpdate(1)
    /\ DOMAIN cargs[1].opts = {"cron"}
    /\ ~cargs[1].active
    /\ ~cargs[1].inactive
    /\ cexit[1] = <<0>>
    /\ ProcLog(1)[2].body = [InitialRecord("schedule") EXCEPT !.cron_format = 1]
    /\ cout[1] = <<ProcLog(1)[3].result>>

(* C7: when two update invocations both GET the record before either PUTs,  *)
(* the later PUT writes back the value it read for every field only the      *)
(* other invocation gave, so that invocation's change, which its own PUT had *)
(* written, is no longer in the record; each invocation whose requests all   *)
(* succeed still ends with code 0 and prints no error.                       *)
FirstPos(p) == CHOOSE i \in DOMAIN http_log :
                 http_log[i].proc = p /\ \A j \in 1..(i - 1) : http_log[j].proc # p
PutPos(p) == CHOOSE i \in DOMAIN http_log :
               http_log[i].proc = p /\ http_log[i].method = "PUT"
HasPut(p) == \E i \in DOMAIN http_log :
               http_log[i].proc = p /\ http_log[i].method = "PUT" /\ http_log[i].ok

\* Both read before either wrote, and q wrote last.
Raced(p, q) ==
    /\ p # q
    /\ IsUpdate(p) /\ IsUpdate(q)
    /\ HasPut(p) /\ HasPut(q)
    /\ FirstPos(p) < PutPos(q)
    /\ FirstPos(q) < PutPos(p)
    /\ PutPos(p) < PutPos(q)

C7_ConcurrentUpdatesRace ==
    \A p \in Procs, q \in Procs : Raced(p, q) =>
        LET mine == Supplied(kind, cargs[p])
            theirs == Supplied(kind, cargs[q])
            read == http_log[FirstPos(q)].result
        IN  /\ \A f \in DOMAIN mine \ DOMAIN theirs :
                /\ f \in DOMAIN http_log[PutPos(p)].body
                /\ http_log[PutPos(p)].body[f] = mine[f]
                /\ f \in DOMAIN remote
                /\ remote[f] = read[f]
            /\ \A r \in {p, q} :
                (cpc[r] = "exited" /\ \A i \in DOMAIN http_log :
                                        http_log[i].proc = r => http_log[i].ok)
                    => (cexit[r] = <<0>> /\ cerr[r] = None)

\* --playbook by one invocation, --description by the other: the playbook is lost.
C7_Witness ==
    /\ kind = "template"
    /\ Raced(1, 2)
    /\ DOMAIN cargs[1].opts = {"playbook"}
    /\ DOMAIN cargs[2].opts = {"description"}
    /\ http_log[PutPos(1)].body.playbook = 1
    /\ remote.playbook = 0
    /\ remote.description = 2
    /\ cexit = [p \in Procs |-> <<0>>]
    /\ cerr = [p \in Procs |-> None]

-----------------------------------------------------------------------------
(* db_cli.py: `query <db> <sql> [--write]`.  A statement is a sequence of    *)
(* characters, composed of leading whitespace, a first word in some letter   *)
(* case, a remainder and trailing whitespace.                                *)

MaxPad == 1
LowerLetters == <<"a", "b", "c", "d", "e", "f", "g", "h", "i", "j", "k", "l", "m",
                  "n", "o", "p", "q", "r", "s", "t", "u", "v", "w", "x", "y", "z">>
UpperLetters == <<"A", "B", "C", "D", "E", "F", "G", "H", "I", "J", "K", "L", "M",
                  "N", "O", "P", "Q", "R", "S", "T", "U", "V", "W", "X", "Y", "Z">>

\* str.upper()
upper(s) ==
    [i \in DOMAIN s |->
        IF \E n \in DOMAIN LowerLetters : LowerLetters[n] = s[i]
        THEN UpperLetters[CHOOSE n \in DOMAIN LowerLetters : LowerLetters[n] = s[i]]
        ELSE s[i]]

\* str.startswith(prefix)
startswith(s, prefix) == Len(prefix) <= Len(s) /\ SubSeq(s, 1, Len(prefix)) = prefix

SELECT == <<"S", "E", "L", "E", "C", "T">>
SHOW == <<"S", "H", "O", "W">>
DESCRIBE == <<"D", "E", "S", "C", "R", "I", "B", "E">>
EXPLAIN == <<"E", "X", "P", "L", "A", "I", "N">>

\* `is_write = not sql.upper().startswith("SELECT") and not ... ("EXPLAIN")`
is_write_of_case_sensitive(stmt) ==
    /\ ~startswith(stmt, SELECT)
    /\ ~startswith(stmt, SHOW)
    /\ ~startswith(stmt, DESCRIBE)
    /\ ~startswith(stmt, EXPLAIN)

is_write_of(stmt) ==
    /\ ~startswith(upper(stmt), SELECT)
    /\ ~startswith(upper(stmt), SHOW)
    /\ ~startswith(upper(stmt), DESCRIBE)
    /\ ~startswith(upper(stmt), EXPLAIN)

\* `run_query(config, db_name, sql, write=is_write)`: the write argument
write_argument_from_flag(classified, flag) == flag

write_argument(classified, flag) == classified

\* ---- the statements tried ----
WordNames ==
    {"SELECT", "SHOW", "DESCRIBE", "EXPLAIN", "INSERT", "UPDATE", "DELETE",
     "WITH", "SELEC", "SET"}

FirstWords ==
    [w \in WordNames |->
        CASE w = "SELECT" -> SELECT
          [] w = "SHOW" -> SHOW
          [] w = "DESCRIBE" -> DESCRIBE
          [] w = "EXPLAIN" -> EXPLAIN
          [] w = "INSERT" -> <<"I", "N", "S", "E", "R", "T">>
          [] w = "UPDATE" -> <<"U", "P", "D", "A", "T", "E">>
          [] w = "DELETE" -> <<"D", "E", "L", "E", "T", "E">>
          [] w = "WITH" -> <<"W", "I", "T", "H">>
          [] w = "SELEC" -> <<"S", "E", "L", "E", "C">>
          [] w = "SET" -> <<"S", "E", "T">>]

ReadWords == {"SELECT", "SHOW", "DESCRIBE", "EXPLAIN"}
ChangeWords == {"INSERT", "UPDATE", "DELETE"}

Lowered(s) ==
    [i \in DOMAIN s |-> LowerLetters[CHOOSE n \in DOMAIN UpperLetters : UpperLetters[n] = s[i]]]
Mixed(s) == [i \in DOMAIN s |-> IF i % 2 = 0 THEN Lowered(s)[i] ELSE s[i]]
Cased(s) == {s, Lowered(s), Mixed(s)}

Pads == SeqsUpTo(Whitespace, MaxPad)
Remainders == {<<>>, <<" ", "1">>, <<"X">>}

StatementsOf(w) ==
    {lead \o first \o rest \o trail :
        lead \in Pads, rest \in Remainders,
        trail \in {<<>>, <<" ">>}, first \in Cased(FirstWords[w])}

DEFAULT_SEMAPHORE_DB == "semaphore"
DEFAULT_LOGGING_DB == "ansible_logging"

\* What the server does with a statement: only these change data.
Changes(word) == word \in ChangeWords
Rows == <<[n |-> 1]>>

QueryIdle ==
    /\ qpc = "idle"
    /\ qargs = None
    /\ sql = <<>>
    /\ is_write = FALSE
    /\ qout = <<>>
    /\ qerr = None
    /\ qexit = <<>>
    /\ db_log = <<>>
    /\ db_data = [committed |-> 0, pending |-> 0]

\* `query <db> <sql> [--write]`, parsed and with its config loaded.
QueryInit ==
    /\ qpc = "cmd_query"
    /\ \E w \in WordNames, db \in {"semaphore", "logging"}, flag \in BOOLEAN :
        \E text \in StatementsOf(w) :
        qargs = [db |-> db, sql |-> text, write |-> flag, word |-> w]
    /\ sql = <<>>
    /\ is_write = FALSE
    /\ qout = <<>>
    /\ qerr = None
    /\ qexit = <<>>
    /\ db_log = <<>>
    /\ db_data = [committed |-> 0, pending |-> 0]

db_name_of(db) == IF db = "semaphore" THEN DEFAULT_SEMAPHORE_DB ELSE DEFAULT_LOGGING_DB

\* cmd_query up to the call of run_query
cmd_query ==
    /\ qpc = "cmd_query"
    /\ LET stripped == strip(qargs.sql)
           w == is_write_of(stripped) IN
        /\ sql' = stripped
        /\ is_write' = w
        /\ IF w /\ ~qargs.write
           THEN /\ qerr' = [msg |-> [text |-> "Write query detected. Add --write flag to confirm."],
                            detail |-> stripped]
                /\ qexit' = <<1>>
                /\ qpc' = "exited"
           ELSE /\ qpc' = "connect"
                /\ UNCHANGED <<qerr, qexit>>
    /\ UNCHANGED <<qargs, qout, db_log, db_data>>

\* get_connection: pymysql.connect, or error() on OperationalError
get_connection ==
    /\ qpc = "connect"
    /\ \E outcome \in {"ok", "OperationalError"} :
        /\ db_log' = Append(db_log, [call |-> "connect", arg |-> <<db_name_of(qargs.db)>>,
                                     ok |-> outcome = "ok"])
        /\ IF outcome = "ok"
           THEN /\ qpc' = "execute"
                /\ UNCHANGED <<qerr, qexit>>
           ELSE /\ qerr' = [msg |-> [text |-> "Cannot connect to"], detail |-> <<>>]
                /\ qexit' = <<1>>
                /\ qpc' = "exited"
    /\ UNCHANGED <<qargs, sql, is_write, qout, db_data>>

\* run_query after the connection: execute, commit or fetchall, close (finally),
\* then output(result) in cmd_query and the return from main.
run_query ==
    /\ qpc = "execute"
    /\ \E outcome \in {"ok", "ProgrammingError", "OperationalError", "IntegrityError"} :
        LET write == write_argument(is_write, qargs.write)
            executed == [call |-> "execute", arg |-> sql, ok |-> outcome = "ok"]
            closed == [call |-> "close", arg |-> <<>>, ok |-> TRUE]
            changed == IF Changes(qargs.word) THEN 1 ELSE 0
        IN
        IF outcome = "ok"
        THEN IF write
             THEN /\ db_log' = db_log \o <<executed,
                                  [call |-> "commit", arg |-> <<>>, ok |-> TRUE], closed>>
                  /\ db_data' = [committed |-> db_data.committed + changed, pending |-> 0]
                  /\ qout' = <<[rows_affected |-> changed]>>
                  /\ qexit' = <<0>>
                  /\ qpc' = "exited"
                  /\ UNCHANGED qerr
             ELSE /\ db_log' = db_log \o <<executed,
                                  [call |-> "fetchall", arg |-> <<>>, ok |-> TRUE], closed>>
                  /\ db_data' = [committed |-> db_data.committed, pending |-> 0]
                  /\ qout' = <<IF Changes(qargs.word) THEN <<>> ELSE Rows>>
                  /\ qexit' = <<0>>
                  /\ qpc' = "exited"
                  /\ UNCHANGED qerr
        ELSE /\ db_log' = db_log \o <<executed, closed>>
             /\ qerr' = [msg |-> [text |-> CASE outcome = "ProgrammingError" -> "Query error"
                                             [] outcome = "OperationalError" -> "Database error"
                                             [] OTHER -> "Traceback"],
                         detail |-> <<>>]
             /\ qexit' = <<1>>
             /\ qpc' = "exited"
             /\ UNCHANGED <<qout, db_data>>
    /\ UNCHANGED <<qargs, sql, is_write>>

NextQuery ==
    \/ (cmd_query /\ UNCHANGED <<httpVars, taskVars, crudVars, mainVars, tableVars, reviewVars>>)
    \/ (get_connection /\ UNCHANGED <<httpVars, taskVars, crudVars, mainVars, tableVars, reviewVars>>)
    \/ (run_query /\ UNCHANGED <<httpVars, taskVars, crudVars, mainVars, tableVars, reviewVars>>)

-----------------------------------------------------------------------------
(* Claims about query *)

(* C8: query takes a statement for a read exactly when its first word,       *)
(* whatever its letter case and the whitespace around the statement, begins  *)
(* with SELECT, SHOW, DESCRIBE or EXPLAIN; a SELECT is never refused for     *)
(* want of --write; an INSERT, UPDATE or DELETE without --write ends the     *)
(* process with code 1 before any call on the database driver.               *)
Refused == qerr # None /\ qerr.msg.text = "Write query detected. Add --write flag to confirm."

C8_QueryClassification ==
    qpc # "cmd_query" =>
        /\ is_write <=> qargs.word \notin ReadWords
        /\ qargs.word = "SELECT" => ~Refused
        /\ (qargs.word \in ChangeWords /\ ~qargs.write) =>
            /\ Refused
            /\ qpc = "exited"
            /\ qexit = <<1>>
            /\ db_log = <<>>
            /\ db_data = [committed |-> 0, pending |-> 0]

\* " delete ..." in lower case after whitespace, without --write: refused.
C8_Witness ==
    /\ qargs.word = "DELETE"
    /\ Head(qargs.sql) \in Whitespace
    /\ startswith(lstrip(qargs.sql), Lowered(FirstWords["DELETE"]))
    /\ ~qargs.write
    /\ Refused
    /\ qexit = <<1>>
    /\ db_log = <<>>

(* C9: when the statement was executed, a statement classified as a write is *)
(* committed and the result printed is the affected-row count; a statement   *)
(* classified as a read has its rows fetched and printed and is never        *)
(* committed, with or without --write.                                       *)
Calls == [i \in DOMAIN db_log |-> db_log[i].call]

C9_WriteCommitsReadFetches ==
    /\ \A i \in DOMAIN db_log : db_log[i].call = "commit" => (is_write /\ qargs.write)
    /\ qexit = <<0>> =>
        IF is_write
        THEN /\ qargs.write
             /\ Calls = <<"connect", "execute", "commit", "close">>
             /\ DOMAIN qout[1] = {"rows_affected"}
             /\ db_data.committed = qout[1].rows_affected
        ELSE /\ Calls = <<"connect", "execute", "fetchall", "close">>
             /\ qout = <<Rows>>
             /\ db_data.committed = 0

\* A SELECT run with --write: rows fetched, nothing committed.
C9_Witness ==
    /\ qargs.word = "SELECT"
    /\ qargs.write
    /\ qexit = <<0>>
    /\ Calls = <<"connect", "execute", "fetchall", "close">>
    /\ qout = <<Rows>>

-----------------------------------------------------------------------------
(* Both CLIs: main(), the credential file and the config commands.  Several  *)
(* invocations run one after the other on the same credential file.  A word  *)
(* whose letters do not matter is one symbol of a str; "/" and whitespace    *)
(* are symbols of their own.                                                 *)

MaxRuns == 2
MaxSecret == 5

DEFAULT_PORT == 3306
CONFIG_SECTION == "database"

\* str.rstrip("/")
RECURSIVE rstrip_slash(_)
rstrip_slash(s) ==
    IF s # <<>> /\ s[Len(s)] = "/" THEN rstrip_slash(SubSeq(s, 1, Len(s) - 1)) ELSE s

Digits == <<"0", "1", "2", "3", "4", "5", "6", "7", "8", "9">>

\* str(n), n a port number
RECURSIVE str(_)
str(n) == IF n < 10 THEN <<Digits[n + 1]>> ELSE Append(str(n \div 10), Digits[(n % 10) + 1])

IsDigit(c) == \E d \in DOMAIN Digits : Digits[d] = c

RECURSIVE digits_value(_)
digits_value(s) ==
    IF s = <<>> THEN 0
    ELSE 10 * digits_value(SubSeq(s, 1, Len(s) - 1))
         + (CHOOSE d \in DOMAIN Digits : Digits[d] = s[Len(s)]) - 1

\* int(s): <<n>>, or <<>> when it raises ValueError
int(s) ==
    LET t == strip(s)
    IN  IF t # <<>> /\ \A i \in DOMAIN t : IsDigit(t[i]) THEN <<digits_value(t)>> ELSE <<>>

\* An uncaught exception: traceback on stderr, exit code 1.
Crash(exc) == [exit_code |-> 1, msg |-> [text |-> "Traceback", remedy |-> <<>>], detail |-> <<exc>>]

\* The credential file.  RawConfigParser.read returns every value stripped.
NoFile == [exists |-> FALSE, sections |-> <<>>]
FileOf(sections) == [exists |-> TRUE, sections |-> sections]

cp_read(sections) ==
    [n \in DOMAIN sections |-> [k \in DOMAIN sections[n] |-> strip(sections[n][k])]]

\* semaphore_cli.load_config(path)
load_config_ignores_token_variable(file, env) ==
    IF ~file.exists
    THEN error([text |-> "Config file not found",
                remedy |-> <<"Run: python3 scripts/semaphore_cli.py config init --url URL --token TOKEN">>],
               <<>>)
    ELSE IF "semaphore" \notin DOMAIN cp_read(file.sections)
    THEN error([text |-> "Missing [semaphore] section", remedy |-> <<>>], <<>>)
    ELSE LET section == cp_read(file.sections)["semaphore"]
             url == rstrip_slash(Get(env, "SEMAPHORE_URL", Get(section, "url", <<>>)))
             token == Get(section, "token", <<>>)
         IN  IF url = <<>> \/ token = <<>>
             THEN error([text |-> "Config missing 'url' or 'token'.",
                         remedy |-> <<"Re-run config init.">>], <<>>)
             ELSE Returns([url |-> url, token |-> token])

load_config(file, env) ==
    IF ~file.exists
    THEN error([text |-> "Config file not found",
                remedy |-> <<"Run: python3 scripts/semaphore_cli.py config init --url URL --token TOKEN">>],
               <<>>)
    ELSE IF "semaphore" \notin DOMAIN cp_read(file.sections)
    THEN error([text |-> "Missing [semaphore] section", remedy |-> <<>>], <<>>)
    ELSE LET section == cp_read(file.sections)["semaphore"]
             url == rstrip_slash(Get(env, "SEMAPHORE_URL", Get(section, "url", <<>>)))
             token == Get(env, "SEMAPHORE_TOKEN", Get(section, "token", <<>>))
         IN  IF url = <<>> \/ token = <<>>
             THEN error([text |-> "Config missing 'url' or 'token'.",
                         remedy |-> <<"Re-run config init.">>], <<>>)
             ELSE Returns([url |-> url, token |-> token])

\* db_cli.load_config(path)
db_load_config(file, env) ==
    LET remedy == <<"Run: python3 scripts/db_cli.py config init --host HOST --user USER --password PASS">>
    IN
    IF ~file.exists
    THEN error([text |-> "Config file not found", remedy |-> remedy], <<>>)
    ELSE IF CONFIG_SECTION \notin DOMAIN cp_read(file.sections)
    THEN error([text |-> "Missing [database] section", remedy |-> remedy], <<>>)
    ELSE LET s == cp_read(file.sections)[CONFIG_SECTION]
             port == IF "DB_PORT" \in DOMAIN env THEN int(env["DB_PORT"])
                     ELSE IF "port" \in DOMAIN s THEN int(s["port"])
                     ELSE <<DEFAULT_PORT>>
         IN  IF port = <<>>
             THEN Crash("ValueError")
             ELSE Returns([host |-> Get(env, "DB_HOST", Get(s, "host", <<>>)),
                           port |-> port[1],
                           user |-> Get(env, "DB_USER", Get(s, "user", <<>>)),
                           password |-> Get(env, "DB_PASSWORD", Get(s, "password", <<>>)),
                           semaphore_db |-> Get(s, "semaphore_db", <<DEFAULT_SEMAPHORE_DB>>),
                           logging_db |-> Get(s, "logging_db", <<DEFAULT_LOGGING_DB>>)])

\* semaphore_cli.save_config(path, url, token): the file afterwards
save_config_swaps_url_and_token(file, url, token) ==
    FileOf([semaphore |-> [url |-> token, token |-> rstrip_slash(url)]])

save_config(file, url, token) ==
    FileOf([semaphore |-> [url |-> rstrip_slash(url), token |-> token]])

\* db_cli.save_config(path, host, ...): the file afterwards
db_save_config_keeps_old_fields(file, host, port, user, password, semaphore_db, logging_db) ==
    LET old == IF file.exists THEN cp_read(file.sections) ELSE <<>>
        was == IF CONFIG_SECTION \in DOMAIN old THEN old[CONFIG_SECTION] ELSE <<>>
        given == [host |-> host, port |-> str(port), user |-> user, password |-> password,
                  semaphore_db |-> semaphore_db, logging_db |-> logging_db]
    IN  FileOf(Put(old, CONFIG_SECTION,
                   [k \in DOMAIN given \cup DOMAIN was |->
                        IF k \in DOMAIN was /\ k \notin {"host", "user", "password"}
                        THEN was[k] ELSE given[k]]))

db_save_config(file, host, port, user, password, semaphore_db, logging_db) ==
    LET old == IF file.exists THEN cp_read(file.sections) ELSE <<>>
    IN  FileOf(Put(old, CONFIG_SECTION,
                   [host |-> host, port |-> str(port), user |-> user, password |-> password,
                    semaphore_db |-> semaphore_db, logging_db |-> logging_db]))

\* str.rjust(width, fill)
rjust(s, width, fill) ==
    IF width <= Len(s) THEN s ELSE [i \in 1..(width - Len(s)) |-> fill] \o s

\* s[-4:]
last4(s) == IF Len(s) <= 4 THEN s ELSE SubSeq(s, Len(s) - 3, Len(s))

\* `secret[-4:].rjust(len(secret), "*") if secret else ""`
masked(secret) == IF secret # <<>> THEN rjust(last4(secret), Len(secret), "*") ELSE <<>>

\* ---- the command lines, environments and files tried ----
SecretLetters == <<"k", "e", "y", "s", "t", "o", "n", "e">>
SecretOf(n) == [i \in 1..n |-> SecretLetters[((i - 1) % Len(SecretLetters)) + 1]]

Urls == <<<<"https://sem">>, <<"https://sem", "/">>, <<" ", "https://lab">>>>
Hosts == <<<<"db.lan">>, <<"db.lan", " ">>>>

\* The options of `config init`: one command line for each length of secret.
ApiInits == {[url |-> Urls[(n % 3) + 1], token |-> SecretOf(n)] : n \in 1..MaxSecret}

DbInits ==
    {[host |-> Hosts[(n % 2) + 1], port |-> DEFAULT_PORT + (n % 2), user |-> <<"root">>,
      password |-> SecretOf(n),
      semaphore_db |-> IF n % 3 = 0 THEN <<"sem2">> ELSE <<DEFAULT_SEMAPHORE_DB>>,
      logging_db |-> <<DEFAULT_LOGGING_DB>>] : n \in 0..MaxSecret}

UsageErrors == {"the following arguments are required", "invalid int value", "invalid choice"}

NoOpts == <<>>
Invocation(command, action, usage, opts) ==
    [command |-> command, action |-> action, usage |-> usage, opts |-> opts]

ApiCommands ==
    {<<"ping", "">>, <<"backup", "">>, <<"task", "list">>, <<"template", "list">>,
     <<"schedule", "list">>, <<"env", "list">>, <<"inventory", "list">>,
     <<"view", "list">>, <<"integration", "list">>}

DbCommands ==
    {<<c, "">> : c \in {"query", "backups", "stale-backups", "health", "restores", "updates",
                        "runs", "table-counts", "docker-sizes", "tasks", "failed-tasks",
                        "envs", "templates", "schedules"}}

Invocations(t) ==
    {Invocation("", "", u, NoOpts) : u \in UsageErrors}
    \cup {Invocation("config", a, "ok", NoOpts) : a \in {"show", "test"}}
    \cup IF t = "api"
         THEN {Invocation(c[1], c[2], "ok", NoOpts) : c \in ApiCommands}
              \cup {Invocation("task", "run", "ok", [wait |-> w]) : w \in BOOLEAN}
              \cup {Invocation("config", "init", "ok", o) : o \in ApiInits}
         ELSE {Invocation(c[1], c[2], "ok", NoOpts) : c \in DbCommands}
              \cup {Invocation("config", "init", "ok", o) : o \in DbInits}

Environments ==
    {<<>>,
     [SEMAPHORE_URL |-> <<"https://env", "/">>, SEMAPHORE_TOKEN |-> <<"e", "n", "v">>],
     [SEMAPHORE_TOKEN |-> <<"e", "n", "v">>, DB_PASSWORD |-> <<>>],
     [DB_HOST |-> <<"env.lan">>, DB_PORT |-> <<"3", "3", "0", "7">>, DB_USER |-> <<"envuser">>,
      DB_PASSWORD |-> <<"e", "n", "v", "p", "w">>,
      DB_SEMAPHORE_DB |-> <<"envsem">>, DB_LOGGING_DB |-> <<"envlog">>],
     [DB_PORT |-> <<"p">>]}

InitialFiles ==
    {NoFile,
     FileOf(<<>>),
     FileOf([semaphore |-> [url |-> <<"https://old">>, token |-> <<"o", "l", "d", "t", "k">>]]),
     FileOf([semaphore |-> [url |-> <<"https://old">>, token |-> <<>>]]),
     FileOf([database |-> [host |-> <<"old.lan">>, port |-> <<"3", "3", "0", "9">>,
                           user |-> <<"olduser">>, password |-> <<"o", "l", "d">>,
                           semaphore_db |-> <<"oldsem">>, logging_db |-> <<"oldlog">>]]),
     FileOf([database |-> [host |-> <<>>, user |-> <<"olduser">>, password |-> <<"o", "l", "d">>]]),
     FileOf([semaphore |-> [url |-> <<"https://old">>, token |-> <<"o", "l", "d", "t", "k">>],
             database |-> [host |-> <<"old.lan">>, user |-> <<"olduser">>,
                           password |-> <<"o", "l", "d", "p", "w">>]])}

MainIdle ==
    /\ tool = "api"
    /\ margs = None
    /\ environ = <<>>
    /\ cred_file = NoFile
    /\ mpc = "idle"
    /\ mconfig = None
    /\ mout = <<>>
    /\ merr = None
    /\ mexit = <<>>
    /\ io_log = <<>>
    /\ runs = 0
    /\ last_init = [t \in {"api", "db"} |-> None]

\* No invocation yet, some credential file (or none) on disk.
MainInit ==
    /\ tool = "api"
    /\ margs = None
    /\ environ = <<>>
    /\ cred_file \in InitialFiles
    /\ mpc = "shell"
    /\ mconfig = None
    /\ mout = <<>>
    /\ merr = None
    /\ mexit = <<>>
    /\ io_log = <<>>
    /\ runs = 0
    /\ last_init = [t \in {"api", "db"} |-> None]

\* The shell starts the next invocation.
start_run ==
    /\ mpc \in {"shell", "exited"}
    /\ runs < MaxRuns
    /\ \E t \in {"api", "db"}, env \in Environments :
        \E a \in Invocations(t) :
            /\ tool' = t
            /\ margs' = a
            /\ environ' = env
    /\ mpc' = "parse_args"
    /\ mconfig' = None
    /\ mout' = <<>>
    /\ merr' = None
    /\ mexit' = <<>>
    /\ io_log' = <<>>
    /\ runs' = runs + 1
    /\ UNCHANGED <<cred_file, last_init>>

MainExit(r) ==
    /\ merr' = [msg |-> r.msg, detail |-> r.detail]
    /\ mexit' = <<r.exit_code>>
    /\ mpc' = "exited"

\* COMMANDS.get(args.command), then .get(action) for a command with sub-actions
HasHandler(t, a) ==
    \/ a.command = "config" /\ a.action \in {"init", "show", "test"}
    \/ t = "api" /\ (<<a.command, a.action>> \in ApiCommands \/ <<a.command, a.action>> = <<"task", "run">>)
    \/ t = "db" /\ <<a.command, a.action>> \in DbCommands

\* argparse: parser.error() prints the usage and ends the process with code 2
argparse_error(usage) == [exit_code |-> 2, msg |-> [text |-> usage, remedy |-> <<"usage:">>], detail |-> <<>>]

\* main(): parse_args and the handler lookup
main_parse_args ==
    /\ mpc = "parse_args"
    /\ IF margs.usage # "ok"
       THEN MainExit(argparse_error(margs.usage))
       ELSE IF ~HasHandler(tool, margs)
       THEN MainExit([exit_code |-> 1, msg |-> [text |-> "help", remedy |-> <<"usage:">>],
                      detail |-> <<>>])
       ELSE /\ mpc' = "load_config"
            /\ UNCHANGED <<merr, mexit>>
    /\ UNCHANGED <<tool, margs, environ, cred_file, mconfig, mout, io_log, runs, last_init>>

\* main(): `config = load_config(args.config) if needs_config else None`
main_load_config ==
    /\ mpc = "load_config"
    /\ LET needs_config == margs.command # "config"
           r == IF tool = "api" THEN load_config(cred_file, environ)
                ELSE db_load_config(cred_file, environ)
       IN  IF needs_config /\ Exits(r)
           THEN /\ MainExit(r)
                /\ UNCHANGED mconfig
           ELSE /\ mconfig' = IF needs_config THEN r.value ELSE None
                /\ mpc' = "handler"
                /\ UNCHANGED <<merr, mexit>>
    /\ UNCHANGED <<tool, margs, environ, cred_file, mout, io_log, runs, last_init>>

HttpIo(method, path, url) == [io |-> "http", method |-> method, path |-> path, to |-> url]
ConnectIo(host, database) == [io |-> "connect", method |-> "", path |-> database, to |-> host]

PingAnswers == {Response(200, TextBody(<<"pong">>)), Response(401, EmptyBody),
                Raised("ConnectionError")}

MainDone(printed) ==
    /\ mout' = <<printed>>
    /\ mexit' = <<0>>
    /\ mpc' = "exited"
    /\ UNCHANGED merr

\* semaphore_cli.cmd_config_init
cmd_config_init_saves_before_ping ==
    /\ mpc = "handler" /\ tool = "api"
    /\ margs.command = "config" /\ margs.action = "init"
    /\ LET url == rstrip_slash(margs.opts.url)
           token == margs.opts.token
       IN  \E ping \in PingAnswers :
            LET r == api_request("GET", "/api/ping", url, ping, TRUE, DEFAULT_TIMEOUT)
            IN  /\ io_log' = Append(io_log, HttpIo("GET", "/api/ping", url))
                /\ IF Exits(r)
                   THEN /\ MainExit(error([text |-> "Could not connect to Semaphore. Check URL and token.",
                                           remedy |-> <<>>], <<>>))
                        /\ cred_file' = save_config(cred_file, url, token)
                        /\ UNCHANGED <<mout, last_init>>
                   ELSE /\ cred_file' = save_config(cred_file, url, token)
                        /\ MainDone([status |-> "ok", ping |-> strip(r.value)])
                        /\ last_init' = [last_init EXCEPT !["api"] = margs.opts]
    /\ UNCHANGED <<tool, margs, environ, mconfig, runs>>

cmd_config_init ==
    /\ mpc = "handler" /\ tool = "api"
    /\ margs.command = "config" /\ margs.action = "init"
    /\ LET url == rstrip_slash(margs.opts.url)
           token == margs.opts.token
       IN  \E ping \in PingAnswers :
            LET r == api_request("GET", "/api/ping", url, ping, TRUE, DEFAULT_TIMEOUT)
            IN  /\ io_log' = Append(io_log, HttpIo("GET", "/api/ping", url))
                /\ IF Exits(r)
                   THEN /\ MainExit(error([text |-> "Could not connect to Semaphore. Check URL and token.",
                                           remedy |-> <<>>], <<>>))
                        /\ UNCHANGED <<cred_file, mout, last_init>>
                   ELSE /\ cred_file' = save_config(cred_file, url, token)
                        /\ MainDone([status |-> "ok", ping |-> strip(r.value)])
                        /\ last_init' = [last_init EXCEPT !["api"] = margs.opts]
    /\ UNCHANGED <<tool, margs, environ, mconfig, runs>>

\* db_cli.cmd_config_init: the connections are tried, the config is saved either way
db_cmd_config_init ==
    /\ mpc = "handler" /\ tool = "db"
    /\ margs.command = "config" /\ margs.action = "init"
    /\ LET o == margs.opts
       IN  \E ok1 \in BOOLEAN, ok2 \in BOOLEAN :
            /\ io_log' = io_log \o <<ConnectIo(o.host, o.semaphore_db),
                                     ConnectIo(o.host, o.logging_db)>>
            /\ cred_file' = db_save_config(cred_file, o.host, o.port, o.user, o.password,
                                           o.semaphore_db, o.logging_db)
            /\ MainDone([status |-> "ok", databases |-> <<ok1, ok2>>])
            /\ last_init' = [last_init EXCEPT !["db"] = o]
    /\ UNCHANGED <<tool, margs, environ, mconfig, runs>>

\* semaphore_cli.cmd_config_show
cmd_config_show ==
    /\ mpc = "handler" /\ tool = "api"
    /\ margs.command = "config" /\ margs.action = "show"
    /\ LET r == load_config(cred_file, environ)
       IN  IF Exits(r)
           THEN MainExit(r) /\ UNCHANGED mout
           ELSE MainDone([url |-> r.value.url, token |-> masked(r.value.token)])
    /\ UNCHANGED <<tool, margs, environ, cred_file, mconfig, io_log, runs, last_init>>

\* db_cli.cmd_config_show
db_cmd_config_show ==
    /\ mpc = "handler" /\ tool = "db"
    /\ margs.command = "config" /\ margs.action = "show"
    /\ LET r == db_load_config(cred_file, environ)
       IN  IF Exits(r)
           THEN MainExit(r) /\ UNCHANGED mout
           ELSE MainDone([r.value EXCEPT !.password = masked(r.value.password)])
    /\ UNCHANGED <<tool, margs, environ, cred_file, mconfig, io_log, runs, last_init>>

\* cmd_config_test of either CLI: load the config, then ping or connect
cmd_config_test ==
    /\ mpc = "handler"
    /\ margs.command = "config" /\ margs.action = "test"
    /\ LET r == IF tool = "api" THEN load_config(cred_file, environ)
                ELSE db_load_config(cred_file, environ)
       IN  IF Exits(r)
           THEN MainExit(r) /\ UNCHANGED <<mout, io_log>>
           ELSE \E ok \in BOOLEAN :
                /\ io_log' = Append(io_log,
                        IF tool = "api" THEN HttpIo("GET", "/api/ping", r.value.url)
                        ELSE ConnectIo(r.value.host, r.value.semaphore_db))
                /\ IF ok
                   THEN MainDone([status |-> "ok"])
                   ELSE MainExit(error([text |-> "Cannot connect to", remedy |-> <<>>], <<>>))
                        /\ UNCHANGED mout
    /\ UNCHANGED <<tool, margs, environ, cred_file, mconfig, runs, last_init>>

\* handler(args, config) of every other command: it talks to the server with the
\* loaded config; a polled task that ends unsuccessfully ends the process with 2.
run_handler ==
    /\ mpc = "handler"
    /\ margs.command # "config"
    /\ io_log' = Append(io_log,
            IF tool = "api" THEN HttpIo("GET", margs.command, mconfig.url)
            ELSE ConnectIo(mconfig.host, mconfig.semaphore_db))
    /\ \E outcome \in {"ok", "error"}
                      \cup (IF margs.action = "run" /\ margs.opts.wait
                            THEN {"task failed"} ELSE {}) :
        CASE outcome = "ok" -> MainDone([status |-> "ok"])
          [] outcome = "error" ->
                MainExit(error([text |-> "Cannot connect to", remedy |-> <<>>], <<>>))
                /\ UNCHANGED mout
          [] outcome = "task failed" ->
                /\ mout' = <<[status |-> "error"]>>
                /\ mexit' = <<exit_for("error")>>
                /\ mpc' = "exited"
                /\ UNCHANGED merr
    /\ UNCHANGED <<tool, margs, environ, cred_file, mconfig, runs, last_init>>

NextMain ==
    \/ (start_run /\ UNCHANGED <<httpVars, taskVars, crudVars, queryVars, tableVars, reviewVars>>)
    \/ (main_parse_args /\ UNCHANGED <<httpVars, taskVars, crudVars, queryVars, tableVars, reviewVars>>)
    \/ (main_load_config /\ UNCHANGED <<httpVars, taskVars, crudVars, queryVars, tableVars, reviewVars>>)
    \/ (cmd_config_init /\ UNCHANGED <<httpVars, taskVars, crudVars, queryVars, tableVars, reviewVars>>)
    \/ (db_cmd_config_init /\ UNCHANGED <<httpVars, taskVars, crudVars, queryVars, tableVars, reviewVars>>)
    \/ (cmd_config_show /\ UNCHANGED <<httpVars, taskVars, crudVars, queryVars, tableVars, reviewVars>>)
    \/ (db_cmd_config_show /\ UNCHANGED <<httpVars, taskVars, crudVars, queryVars, tableVars, reviewVars>>)
    \/ (cmd_config_test /\ UNCHANGED <<httpVars, taskVars, crudVars, queryVars, tableVars, reviewVars>>)
    \/ (run_handler /\ UNCHANGED <<httpVars, taskVars, crudVars, queryVars, tableVars, reviewVars>>)

-----------------------------------------------------------------------------
(* Claims about main() and the credential file *)

Ended == mpc = "exited" /\ mexit # <<>>
Command(c, a) == margs # None /\ margs.usage = "ok" /\ margs.command = c /\ margs.action = a

PolledTaskFailed ==
    /\ tool = "api"
    /\ Command("task", "run")
    /\ margs.opts.wait
    /\ mout = <<[status |-> "error"]>>

(* C11: every invocation of either CLI ends with exit code 0, 1 or 2: 0 on   *)
(* success, 1 on argument, configuration, query, transport, server and       *)
(* policy errors, and 2 only when a polled task ended in a terminal state    *)
(* other than success.                                                       *)
C11_ExitCodes ==
    Ended =>
        /\ mexit[1] \in {0, 1, 2}
        /\ mexit = <<0>> => merr = None
        /\ margs.usage # "ok" => mexit = <<1>>
        /\ mexit = <<2>> => PolledTaskFailed

\* The secret in force for `config show`: the variable's value, else the stored one.
FileField(section, field) ==
    IF cred_file.exists /\ section \in DOMAIN cred_file.sections
       /\ field \in DOMAIN cred_file.sections[section]
    THEN <<strip(cred_file.sections[section][field])>>
    ELSE <<>>

Secret ==
    IF tool = "api"
    THEN Get(environ, "SEMAPHORE_TOKEN", FileField("semaphore", "token")[1])
    ELSE Get(environ, "DB_PASSWORD", FileField("database", "password")[1])

Shown(field) == mout[1][field]

(* C12: the password or token printed by `config show` for a stored secret   *)
(* is never the literal secret: it is as long as the secret, shows the       *)
(* secret's last 4 characters and `*` in every other position.               *)
C12_ShowMasksSecret ==
    (Ended /\ Command("config", "show") /\ mexit = <<0>>
     /\ (IF tool = "api" THEN "SEMAPHORE_TOKEN" ELSE "DB_PASSWORD") \notin DOMAIN environ) =>
        LET shown == Shown(IF tool = "api" THEN "token" ELSE "password")
        IN  /\ shown # Secret
            /\ Len(shown) = Len(Secret)
            /\ \A i \in 1..Len(Secret) :
                shown[i] = IF i > Len(Secret) - 4 THEN Secret[i] ELSE "*"

ShowAfterInit ==
    /\ Ended
    /\ Command("config", "show")
    /\ mexit = <<0>>
    /\ last_init[tool] # None

GivenAddress == IF tool = "api" THEN last_init["api"].url ELSE last_init["db"].host
ShownAddress == IF tool = "api" THEN Shown("url") ELSE Shown("host")
AddressVariable == IF tool = "api" THEN "SEMAPHORE_URL" ELSE "DB_HOST"

(* C13 as claimed: `config show` after a `config init` that saved prints the *)
(* host or url exactly as it was given to `config init` (no environment      *)
(* variable overriding it).                                                  *)
C13_RoundTripAsClaimed ==
    (ShowAfterInit /\ AddressVariable \notin DOMAIN environ) => ShownAddress = GivenAddress

Clean(s) ==
    s # <<>> /\ Head(s) \notin Whitespace /\ s[Len(s)] \notin Whitespace \cup {"/"}

(* C13: `config show` after a `config init` that saved prints, when the      *)
(* variable DB_HOST / SEMAPHORE_URL is not set, the host given with its      *)
(* surrounding whitespace removed, or the url given with its trailing        *)
(* slashes removed, then its surrounding whitespace, then its trailing       *)
(* slashes again: a value given without them is printed exactly as given.    *)
(* When the variable is set, its value is printed (the url without its       *)
(* trailing slashes).                                                        *)
C13_RoundTrip ==
    ShowAfterInit =>
        IF AddressVariable \in DOMAIN environ
        THEN ShownAddress = IF tool = "api" THEN rstrip_slash(environ[AddressVariable])
                            ELSE environ[AddressVariable]
        ELSE /\ ShownAddress = IF tool = "api"
                               THEN rstrip_slash(strip(rstrip_slash(GivenAddress)))
                               ELSE strip(GivenAddress)
             /\ Clean(GivenAddress) => ShownAddress = GivenAddress

\* A url given with a trailing slash is shown without it.
C13_Witness ==
    /\ ShowAfterInit
    /\ tool = "api"
    /\ environ = <<>>
    /\ GivenAddress = <<"https://sem", "/">>
    /\ ShownAddress = <<"https://sem">>

(* C14: for a command other than `config`, when the credential file is       *)
(* absent, lacks the tool's section or has a required field empty, the       *)
(* process prints an error and ends with code 1 before the handler runs:     *)
(* no HTTP request is sent and no database connection is opened.             *)
InForce(section, field, variable) ==
    IF variable \in DOMAIN environ THEN environ[variable]
    ELSE IF FileField(section, field) = <<>> THEN <<>> ELSE FileField(section, field)[1]

Incomplete ==
    \/ ~cred_file.exists
    \/ (IF tool = "api" THEN "semaphore" ELSE "database") \notin DOMAIN cred_file.sections
    \/ tool = "api" /\ InForce("semaphore", "url", "SEMAPHORE_URL") = <<>>
    \/ tool = "api" /\ InForce("semaphore", "token", "SEMAPHORE_TOKEN") = <<>>
    \/ tool = "db" /\ InForce("database", "host", "DB_HOST") = <<>>
    \/ tool = "db" /\ InForce("database", "user", "DB_USER") = <<>>
    \/ tool = "db" /\ InForce("database", "password", "DB_PASSWORD") = <<>>

C14_IncompleteConfigStops ==
    (margs # None /\ margs.usage = "ok" /\ margs.command # "config"
     /\ mpc \notin {"parse_args", "load_config"} /\ Incomplete) =>
        /\ mpc = "exited"
        /\ mexit = <<1>>
        /\ merr # None
        /\ io_log = <<>>

EnvVariable ==
    [url |-> "SEMAPHORE_URL", token |-> "SEMAPHORE_TOKEN", host |-> "DB_HOST",
     port |-> "DB_PORT", user |-> "DB_USER", password |-> "DB_PASSWORD",
     semaphore_db |-> "DB_SEMAPHORE_DB", logging_db |-> "DB_LOGGING_DB"]

ToolSection == IF tool = "api" THEN "semaphore" ELSE "database"

\* What the credential file gives for a field: its value, else the field's default.
FileValue(field) ==
    IF FileField(ToolSection, field) # <<>> THEN FileField(ToolSection, field)[1]
    ELSE CASE field = "port" -> <<"3", "3", "0", "6">>
           [] field = "semaphore_db" -> <<"semaphore">>
           [] field = "logging_db" -> <<"ansible_logging">>
           [] OTHER -> <<>>

\* The text of a field as the record holds it: the port a number, the url
\* without trailing slashes.
AsLoaded(field, text) ==
    CASE field = "port" -> int(text)[1]
      [] field = "url" -> rstrip_slash(text)
      [] OTHER -> text

Loaded == mpc = "handler" /\ mconfig # None

(* C15 as claimed: every field of the loaded credential record, the two      *)
(* database names included, takes the value of its environment variable      *)
(* when that variable is set and the value from the credential file          *)
(* otherwise.                                                                *)
C15_EnvOverridesAsClaimed ==
    Loaded =>
        \A f \in DOMAIN mconfig :
            mconfig[f] = AsLoaded(f, IF EnvVariable[f] \in DOMAIN environ
                                     THEN environ[EnvVariable[f]] ELSE FileValue(f))

(* C15: host, port, user and password (DB CLI) and base URL and bearer token *)
(* (API CLI) take the value of their environment variable when it is set     *)
(* and the value from the credential file otherwise; the two database names  *)
(* always take the value from the credential file (or their default),        *)
(* whatever the environment holds.                                           *)
C15_EnvOverrides ==
    Loaded =>
        \A f \in DOMAIN mconfig :
            mconfig[f] = AsLoaded(f, IF f \notin {"semaphore_db", "logging_db"}
                                        /\ EnvVariable[f] \in DOMAIN environ
                                     THEN environ[EnvVariable[f]] ELSE FileValue(f))

\* Host from the environment, database name from the file although a variable is set.
C15_Witness ==
    /\ Loaded
    /\ tool = "db"
    /\ "DB_HOST" \in DOMAIN environ
    /\ "DB_SEMAPHORE_DB" \in DOMAIN environ
    /\ mconfig.host = environ["DB_HOST"]
    /\ mconfig.host # FileValue("host")
    /\ mconfig.semaphore_db = FileValue("semaphore_db")
    /\ mconfig.semaphore_db # environ["DB_SEMAPHORE_DB"]

(* C16: the credential file changes only in a `config init` handler; after a *)
(* `config init` that saved, the tool's section holds exactly the fields of  *)
(* that invocation, each with the value given or defaulted on that command   *)
(* line (the url without its trailing slashes), whatever the file held       *)
(* before.                                                                   *)
C16_InitState ==
    (Ended /\ Command("config", "init") /\ mexit = <<0>>) =>
        LET sec == cred_file.sections[ToolSection]
            o == margs.opts
        IN  IF tool = "api"
            THEN sec = [url |-> rstrip_slash(o.url), token |-> o.token]
            ELSE /\ DOMAIN sec = {"host", "port", "user", "password", "semaphore_db",
                                  "logging_db"}
                 /\ sec.host = o.host
                 /\ int(sec.port) = <<o.port>>
                 /\ sec.user = o.user
                 /\ sec.password = o.password
                 /\ sec.semaphore_db = o.semaphore_db
                 /\ sec.logging_db = o.logging_db

C16_WriteStep ==
    cred_file' # cred_file => (mpc = "handler" /\ Command("config", "init"))

C16_OnlyInitWrites == [](C16_InitState) /\ [][C16_WriteStep]_vars

\* A database `config init` on a file whose [database] section held other values.
C16_Witness ==
    /\ Ended
    /\ tool = "db"
    /\ Command("config", "init")
    /\ mexit = <<0>>
    /\ runs = 1
    /\ "semaphore" \in DOMAIN cred_file.sections
    /\ cred_file.sections["database"].host = <<"db.lan">>
    /\ cred_file.sections["database"].port = <<"3", "3", "0", "6">>

(* C28: the API CLI's `config init` pings the server at the url given       *)
(* before it writes: a run of it makes that one ping and then either prints *)
(* the server's answer, has written the file and ends with code 0, or (the  *)
(* ping met a transport failure or an error status) reports that it could   *)
(* not connect, ends with code 1 and leaves the file exactly as it was,     *)
(* absent if it was absent.                                                 *)
ApiInitStep == mpc = "handler" /\ tool = "api" /\ Command("config", "init")

C28_InitStep ==
    ApiInitStep =>
        LET url == rstrip_slash(margs.opts.url) IN
        /\ io_log' = <<HttpIo("GET", "/api/ping", url)>>
        /\ mpc' = "exited"
        /\ \/ /\ mexit' = <<0>>
              /\ mout' = <<[status |-> "ok", ping |-> <<"pong">>]>>
              /\ merr' = None
              /\ cred_file' = FileOf([semaphore |-> [url |-> url, token |-> margs.opts.token]])
           \/ /\ mexit' = <<1>>
              /\ mout' = <<>>
              /\ merr'.msg.text = "Could not connect to Semaphore. Check URL and token."
              /\ cred_file' = cred_file

C28_PingBeforeWrite == [][C28_InitStep]_vars

\* A failed init on a machine without a credential file: still none.
C28_Witness ==
    /\ Ended
    /\ tool = "api"
    /\ Command("config", "init")
    /\ mexit = <<1>>
    /\ runs = 1
    /\ io_log = <<HttpIo("GET", "/api/ping", <<"https://sem">>)>>
    /\ cred_file = NoFile

(* C29: both tools keep their section in one credential file and a          *)
(* `config init` touches only its tool's section: once `config init` of     *)
(* both tools has saved to the file, it holds the [semaphore] section with  *)
(* the values of the API CLI's latest init and the [database] section with  *)
(* those of the database CLI's latest init.                                 *)
C29_EachToolKeepsItsSection ==
    (Ended /\ last_init["api"] # None /\ last_init["db"] # None) =>
        LET a == last_init["api"]
            d == last_init["db"]
        IN  /\ cred_file.exists
            /\ {"semaphore", "database"} \subseteq DOMAIN cred_file.sections
            /\ cred_file.sections["semaphore"] =
                    [url |-> rstrip_slash(a.url), token |-> a.token]
            /\ cred_file.sections["database"] =
                    [host |-> d.host, port |-> str(d.port), user |-> d.user,
                     password |-> d.password, semaphore_db |-> d.semaphore_db,
                     logging_db |-> d.logging_db]

-----------------------------------------------------------------------------
(* semaphore_cli.py: `template create` and `template update` with names and  *)
(* view ids of every shape the naming convention distinguishes.  One         *)
(* invocation runs; it uses the state of the update and delete commands.     *)

Verbs == {"Backup", "Deploy", "DR", "Nightly", "backup"}
ViewIds == {0, VIEW_MAP["Backup"], VIEW_MAP["Deploy"]}

\* Names, each with how it was composed: whether it holds the separator, the
\* word before the first separator and whether whitespace surrounds that word.
NameCases ==
    {[text |-> lead \o <<v>> \o trail \o SEP \o rest, sep |-> TRUE, verb |-> v,
      padded |-> lead # <<>> \/ trail # <<>>] :
        v \in Verbs, lead \in Pads, trail \in Pads,
        rest \in {<<"db">>, <<"Update">> \o SEP \o <<"db">>}}
    \cup {[text |-> t, sep |-> TRUE, verb |-> "", padded |-> FALSE] :
            t \in {SEP \o <<"db">>, <<"Back", " ", "up">> \o SEP \o <<"db">>}}
    \cup {[text |-> t, sep |-> FALSE, verb |-> "", padded |-> FALSE] :
            t \in {<<>>, <<"db">>, <<"Backup", "-", "db">>, <<"Backup", " ", "-", "db">>,
                   <<"Backup", " ", "db">>}}

CreateCommands ==
    {[cmd |-> "create", confirm |-> FALSE, active |-> FALSE, inactive |-> FALSE,
      opts |-> [name |-> n, playbook |-> "site.yml", inventory_id |-> 3,
                repository_id |-> 1, environment_id |-> 1, view_id |-> v]] :
        n \in {c.text : c \in NameCases}, v \in ViewIds}

NamingUpdateCommands ==
    {[cmd |-> "update", confirm |-> FALSE, active |-> FALSE, inactive |-> FALSE,
      opts |-> o] :
        o \in LET Names == {c.text : c \in NameCases}
              IN  {<<>>} \cup {[name |-> n] : n \in Names}
                  \cup {[view_id |-> v] : v \in ViewIds}
                  \cup {[name |-> n, view_id |-> v] : n \in Names, v \in ViewIds}}

\* cmd_template_create: the payload
create_payload(o) ==
    LET base == [project_id |-> 1, name |-> o.name, playbook |-> o.playbook,
                 inventory_id |-> o.inventory_id, repository_id |-> o.repository_id,
                 environment_id |-> o.environment_id, view_id |-> o.view_id,
                 allow_override_args_in_task |-> TRUE,
                 allow_override_branch_in_task |-> TRUE, type |-> <<>>, app |-> "ansible"]
        given(f) == f \in DOMAIN o /\ o[f] # <<>>
        p1 == IF given("arguments") THEN Put(base, "arguments", o.arguments) ELSE base
    IN  IF given("description") THEN Put(p1, "description", o.description) ELSE p1

\* What the server answers to the POST, unless the connection fails.
CreateAnswers(payload) ==
    {Response(201, JsonBody(Put(payload, "id", 2))), Response(400, TextBody(<<"e">>)),
     Raised("ConnectionError")}

TemplateInit ==
    /\ kind = "template"
    /\ remote \in {InitialRecord("template"),
                   Put(InitialRecord("template"), "view_id", VIEW_MAP["Deploy"])}
    /\ \E c \in CreateCommands \cup NamingUpdateCommands :
        /\ cargs = [p \in Procs |-> IF p = 1 THEN c ELSE None]
        /\ cpc = [p \in Procs |-> IF p = 1 THEN c.cmd ELSE "idle"]
    /\ current = [p \in Procs |-> None]
    /\ cout = [p \in Procs |-> <<>>]
    /\ cwarn = [p \in Procs |-> <<>>]
    /\ cerr = [p \in Procs |-> None]
    /\ cexit = [p \in Procs |-> <<>>]
    /\ http_log = <<>>

\* cmd_template_create
template_create_blocked_by_warnings(p) ==
    /\ cpc[p] = "create"
    /\ LET payload == create_payload(cargs[p].opts)
           warnings == _validate_template_name(cargs[p].opts.name, cargs[p].opts.view_id)
       IN  \E resp \in CreateAnswers(payload) :
            LET r == IF warnings # <<>> THEN error([text |-> "Invalid name"], <<>>)
                     ELSE api_request("POST", "/api/project/1/templates", CrudUrl, resp, FALSE,
                                      DEFAULT_TIMEOUT)
            IN  /\ cwarn' = [cwarn EXCEPT ![p] = warnings]
                /\ http_log' = IF warnings # <<>> THEN http_log
                               ELSE Append(http_log,
                                           LogEntry(p, "POST", "/api/project/1/templates", payload, r))
                /\ IF Exits(r)
                   THEN /\ CrudFail(p, r)
                        /\ UNCHANGED cout
                   ELSE /\ cout' = [cout EXCEPT ![p] = Append(cout[p], r.value)]
                        /\ cexit' = [cexit EXCEPT ![p] = <<0>>]
                        /\ cpc' = [cpc EXCEPT ![p] = "exited"]
                        /\ UNCHANGED cerr
    /\ UNCHANGED <<kind, remote, cargs, current>>

template_create(p) ==
    /\ cpc[p] = "create"
    /\ LET payload == create_payload(cargs[p].opts)
           warnings == _validate_template_name(cargs[p].opts.name, cargs[p].opts.view_id)
       IN  \E resp \in CreateAnswers(payload) :
            LET r == api_request("POST", "/api/project/1/templates", CrudUrl, resp, FALSE, DEFAULT_TIMEOUT)
            IN  /\ cwarn' = [cwarn EXCEPT ![p] = warnings]
                /\ http_log' = Append(http_log, LogEntry(p, "POST", "/api/project/1/templates", payload, r))
                /\ IF Exits(r)
                   THEN /\ CrudFail(p, r)
                        /\ UNCHANGED cout
                   ELSE /\ cout' = [cout EXCEPT ![p] = Append(cout[p], r.value)]
                        /\ cexit' = [cexit EXCEPT ![p] = <<0>>]
                        /\ cpc' = [cpc EXCEPT ![p] = "exited"]
                        /\ UNCHANGED cerr
    /\ UNCHANGED <<kind, remote, cargs, current>>

NextTemplate ==
    \/ \E p \in Procs : template_create(p) /\ UNCHANGED <<httpVars, taskVars, queryVars, mainVars, tableVars, reviewVars>>
    \/ \E p \in Procs : update_get(p) /\ UNCHANGED <<httpVars, taskVars, queryVars, mainVars, tableVars, reviewVars>>
    \/ \E p \in Procs : update_put(p) /\ UNCHANGED <<httpVars, taskVars, queryVars, mainVars, tableVars, reviewVars>>
    \/ \E p \in Procs : update_reget(p) /\ UNCHANGED <<httpVars, taskVars, queryVars, mainVars, tableVars, reviewVars>>

-----------------------------------------------------------------------------
(* Claims about template naming *)

Creating == cargs[1] # None /\ cargs[1].cmd = "create"
Updating == cargs[1] # None /\ cargs[1].cmd = "update"
AllOk(log) == \A i \in DOMAIN log : log[i].ok

(* C17: naming validation never blocks: for every name and view id a         *)
(* `template create` that ended has sent its POST with that name, and a      *)
(* `template update` whose GET succeeded has sent its PUT, warnings or not;  *)
(* the exit code is 0 exactly when every request succeeded and 1 otherwise,  *)
(* whatever warnings were printed.                                           *)
C17_ValidationNeverBlocks ==
    cpc[1] = "exited" =>
        LET log == ProcLog(1)
        IN  /\ Creating =>
                /\ Len(log) = 1
                /\ log[1].method = "POST"
                /\ log[1].body.name = cargs[1].opts.name
                /\ log[1].body.view_id = cargs[1].opts.view_id
                /\ cexit[1] = <<IF log[1].ok THEN 0 ELSE 1>>
            /\ Updating =>
                /\ Len(log) >= 1
                /\ log[1].ok => (Len(log) >= 2 /\ log[2].method = "PUT")
                /\ cexit[1] = <<IF Len(log) = 3 /\ AllOk(log) THEN 0 ELSE 1>>

\* A create with a warning printed: POST sent, exit 0.
C17_Witness ==
    /\ cpc[1] = "exited"
    /\ Creating
    /\ cwarn[1] = <<MissingDash>>
    /\ Len(http_log) = 1
    /\ http_log[1].method = "POST"
    /\ cexit[1] = <<0>>

\* The name and view id the validation runs on.
Validated ==
    \/ Creating /\ cpc[1] = "exited"
    \/ Updating /\ cpc[1] \in {"put", "reget"}
    \/ Updating /\ cpc[1] = "exited" /\ Len(ProcLog(1)) >= 2

ValidatedName ==
    IF Creating \/ "name" \in DOMAIN cargs[1].opts THEN cargs[1].opts.name
    ELSE ProcLog(1)[1].result.name

ValidatedView ==
    IF Creating \/ "view_id" \in DOMAIN cargs[1].opts THEN cargs[1].opts.view_id
    ELSE ProcLog(1)[1].result.view_id

NameCase == CHOOSE c \in NameCases : c.text = ValidatedName

Disagrees(verb) == verb \in DOMAIN VIEW_MAP /\ VIEW_MAP[verb] # ValidatedView

(* C18 as claimed: one warning when the name lacks the separator; one        *)
(* warning when it holds it and the text before the first separator is in    *)
(* the verb-to-view table with a view id other than the supplied one; no     *)
(* warning otherwise.                                                        *)
C18_NamingWarningsAsClaimed ==
    Validated =>
        IF ~NameCase.sep THEN cwarn[1] = <<MissingDash>>
        ELSE IF ~NameCase.padded /\ Disagrees(NameCase.verb)
        THEN Len(cwarn[1]) = 1 /\ cwarn[1][1].text = "maps to view"
        ELSE cwarn[1] = <<>>

(* C18: one warning when the name lacks the separator; one warning when it   *)
(* holds it and the text before the first separator, with its surrounding    *)
(* whitespace removed, is in the verb-to-view table with a view id other     *)
(* than the supplied one; no warning otherwise.                              *)
C18_NamingWarnings ==
    Validated =>
        IF ~NameCase.sep THEN cwarn[1] = <<MissingDash>>
        ELSE IF Disagrees(NameCase.verb)
        THEN /\ Len(cwarn[1]) = 1
             /\ cwarn[1][1].text = "maps to view"
             /\ cwarn[1][1].expected = VIEW_MAP[NameCase.verb]
             /\ cwarn[1][1].got = ValidatedView
        ELSE cwarn[1] = <<>>

\* "Deploy  - db" (whitespace before the separator) with Backup's view: warned.
C18_Witness ==
    /\ Validated
    /\ Creating
    /\ ValidatedName = <<"Deploy", " ">> \o SEP \o <<"db">>
    /\ ValidatedView = VIEW_MAP["Backup"]
    /\ Len(cwarn[1]) = 1
    /\ cwarn[1][1].text = "maps to view"

-----------------------------------------------------------------------------
(* db_cli.py and semaphore_cli.py: output and format_table.  A str is the    *)
(* sequence of its characters, a character outside ASCII written as its code *)
(* point; a dict is the sequence of its (key, value) pairs in insertion      *)
(* order; a value that may be None is <<>> for None and <<v>> for v.         *)

MaxRows == 2

Ellipsis == <<".", ".", ".">>
NoResults == <<"(no results)">>

Max(a, b) == IF a >= b THEN a ELSE b

\* s.ljust(width)
ljust(s, width) == s \o [i \in 1..(width - Len(s)) |-> " "]

\* s * n
times(s, n) == [k \in 1..(n * Len(s)) |-> s[((k - 1) % Len(s)) + 1]]

\* sep.join(parts)
RECURSIVE join(_, _)
join(sep, parts) ==
    IF parts = <<>> THEN <<>>
    ELSE IF Len(parts) = 1 THEN parts[1]
    ELSE parts[1] \o sep \o join(sep, Tail(parts))

\* row.get(c, default) and list(row.keys())
RECURSIVE dict_get(_, _, _)
dict_get(row, c, default) ==
    IF row = <<>> THEN default
    ELSE IF row[1][1] = c THEN row[1][2]
    ELSE dict_get(Tail(row), c, default)

keys(row) == [i \in DOMAIN row |-> row[i][1]]

\* db_cli.format_table: the cell of a value
db_cell_cut_beyond_83(v) ==
    LET s == IF v = <<>> THEN <<>> ELSE v[1]
    IN  IF Len(s) > 83 THEN SubSeq(s, 1, 77) \o Ellipsis ELSE s

db_cell(v) ==
    LET s == IF v = <<>> THEN <<>> ELSE v[1]
    IN  IF Len(s) > 80 THEN SubSeq(s, 1, 77) \o Ellipsis ELSE s

\* semaphore_cli.format_table: the cell of a value; str(None) is "None"
api_cell(v) ==
    LET s == IF v = <<>> THEN <<"N", "o", "n", "e">> ELSE v[1]
    IN  IF Len(s) > 60 THEN SubSeq(s, 1, 57) \o Ellipsis ELSE s

\* widths: the header lengths, raised by every cell of every row
RECURSIVE column_widths(_, _)
column_widths(headers, str_rows) ==
    IF str_rows = <<>> THEN [i \in DOMAIN headers |-> Len(headers[i])]
    ELSE LET widths == column_widths(headers, SubSeq(str_rows, 1, Len(str_rows) - 1))
             vals == str_rows[Len(str_rows)]
         IN  [i \in DOMAIN widths |-> IF i \in DOMAIN vals THEN Max(widths[i], Len(vals[i]))
                                                           ELSE widths[i]]

\* The string each format_table repeats in the separator line: the escape
\* "\u2500" in db_cli.py, the three characters between the quotes of line 106
\* in semaphore_cli.py.
db_rule == <<"U+2500">>
api_rule == <<"U+00E2", "U+201D", "U+20AC">>

\* the header line, the separator line and the data lines, joined by newlines
table_text(headers, str_rows, rule) ==
    LET widths == column_widths(headers, str_rows)
        sep == <<" ", " ">>
        line(cells) == join(sep, [i \in DOMAIN widths |-> ljust(cells[i], widths[i])])
        lines == <<line(headers),
                   join(sep, [i \in DOMAIN widths |-> times(rule, widths[i])])>>
                 \o [r \in DOMAIN str_rows |-> line(str_rows[r])]
    IN  join(<<"\n">>, lines)

db_format_table(rows, columns, headers) ==
    IF rows = <<>> THEN NoResults
    ELSE LET cols == IF columns = <<>> THEN keys(rows[1]) ELSE columns[1]
             hdrs == IF headers = <<>> THEN cols ELSE headers[1]
         IN  table_text(hdrs, [r \in DOMAIN rows |->
                                [i \in DOMAIN cols |->
                                    db_cell(dict_get(rows[r], cols[i], <<<<>>>>))]],
                        db_rule)

format_table(rows, columns, headers) ==
    IF rows = <<>> THEN NoResults
    ELSE LET hdrs == IF headers = <<>> \/ headers[1] = <<>> THEN columns[1] ELSE headers[1]
         IN  table_text(hdrs, [r \in DOMAIN rows |->
                                [i \in DOMAIN columns[1] |->
                                    api_cell(dict_get(rows[r], columns[1][i], <<<<>>>>))]],
                        api_rule)

\* A text of n characters, no two neighbours alike.
Text(n) == [i \in 1..n |-> <<"a", "b", ".", "c", " ", "d", "e">>[((i - 1) % 7) + 1]]

TableCalls ==
    LET id == <<"i", "d">>
        json == <<"j", "s", "o", "n">>
        limit(cli) == IF cli = "db" THEN 80 ELSE 60
        near(cli) == {0, 2, limit(cli) - 3, limit(cli) - 1, limit(cli), limit(cli) + 1,
                      limit(cli) + 3}
        dicts(cli) == {<<<<json, v>>>> : v \in {<<>>} \cup {<<Text(n)>> : n \in near(cli)}}
                      \cup {<<<<id, <<Text(6)>>>>, <<json, <<Text(n)>>>>>> : n \in near(cli)}
                      \cup {<<<<id, <<>>>>, <<json, <<>>>>>>}
        shapes(cli) == {[columns |-> <<<<id, json>>>>, headers |-> <<>>],
                        [columns |-> <<<<id, json>>>>,
                         headers |-> <<<<<<"I", "D">>,
                                         <<"V", "a", "r", "i", "a", "b", "l", "e", "s">>>>>>]}
                       \cup IF cli = "db" THEN {[columns |-> <<>>, headers |-> <<>>]}
                            ELSE {[columns |-> <<<<>>>>, headers |-> <<>>]}
        calls(cli) == {[cli |-> cli, format |-> "table", data |-> d, columns |-> s.columns,
                        headers |-> s.headers] :
                            d \in UNION {[1..n -> dicts(cli)] : n \in 0..MaxRows},
                            s \in shapes(cli)}
    IN  calls("db") \cup calls("api")
        \cup {[cli |-> cli, format |-> "json", data |-> <<>>, columns |-> <<>>,
               headers |-> <<>>] : cli \in {"db", "api"}}

TableIdle ==
    /\ table_args = None
    /\ table_out = None

TableInit ==
    /\ table_args \in TableCalls
    /\ table_out = None

\* db_cli.output
db_output ==
    /\ table_args # None
    /\ table_args.cli = "db"
    /\ table_out = None
    /\ table_out' = IF table_args.format = "table" /\ table_args.data # <<>>
                    THEN [text |-> db_format_table(table_args.data, table_args.columns,
                                                   table_args.headers)]
                    ELSE [json |-> table_args.data]
    /\ UNCHANGED table_args

\* semaphore_cli.output
api_output ==
    /\ table_args # None
    /\ table_args.cli = "api"
    /\ table_out = None
    /\ table_out' = IF /\ table_args.format = "table"
                       /\ table_args.columns # <<>>
                       /\ table_args.columns[1] # <<>>
                    THEN [text |-> format_table(table_args.data, table_args.columns,
                                                table_args.headers)]
                    ELSE [json |-> table_args.data]
    /\ UNCHANGED table_args

NextTable ==
    \/ db_output /\ UNCHANGED <<httpVars, taskVars, crudVars, queryVars, mainVars, reviewVars>>
    \/ api_output /\ UNCHANGED <<httpVars, taskVars, crudVars, queryVars, mainVars, reviewVars>>

-----------------------------------------------------------------------------
(* Claims about table rendering *)

Rendered == table_out # None /\ "text" \in DOMAIN table_out /\ table_out.text # NoResults

RECURSIVE SplitLines(_)
SplitLines(s) ==
    LET n == find(s, <<"\n">>)
    IN  IF n = 0 THEN <<s>>
        ELSE <<SubSeq(s, 1, n - 1)>> \o SplitLines(SubSeq(s, n + 1, Len(s)))

PrintedLines == SplitLines(table_out.text)
Limit == IF table_args.cli = "db" THEN 80 ELSE 60
ColumnsShown ==
    IF table_args.columns = <<>> THEN keys(table_args.data[1]) ELSE table_args.columns[1]
HeadersShown == IF table_args.headers = <<>> THEN ColumnsShown ELSE table_args.headers[1]

\* The text of the value row r holds for column i: nothing when the row has no
\* such key; for None, nothing in the DB CLI and the word None in the API CLI.
CellText(r, i) ==
    LET row == table_args.data[r]
        hits == {k \in DOMAIN row : row[k][1] = ColumnsShown[i]}
    IN  IF hits = {} THEN <<>>
        ELSE LET v == row[CHOOSE k \in hits : TRUE][2]
             IN  IF v # <<>> THEN v[1]
                 ELSE IF table_args.cli = "db" THEN <<>> ELSE <<"N", "o", "n", "e">>

ShownLength(r, i) == IF Len(CellText(r, i)) > Limit THEN Limit ELSE Len(CellText(r, i))

RECURSIVE MaxOf(_)
MaxOf(S) == IF S = {} THEN 0 ELSE LET x == CHOOSE x \in S : TRUE IN Max(x, MaxOf(S \ {x}))

\* The width of every column, and the columns and blanks before each column.
Widths ==
    [i \in DOMAIN ColumnsShown |->
        MaxOf({Len(HeadersShown[i])} \cup {ShownLength(r, i) : r \in DOMAIN table_args.data})]

RECURSIVE Before(_, _)
Before(W, i) == IF i = 1 THEN 0 ELSE Before(W, i - 1) + W[i - 1] + 2

Field(line, W, i) == SubSeq(line, Before(W, i) + 1, Before(W, i) + W[i])

Blank(s, from) == \A j \in from..Len(s) : s[j] = " "

(* C19: in a rendered table each data cell holding a text of at most 80      *)
(* characters (60 in the API CLI) shows that text unchanged, followed by     *)
(* padding only; a cell holding a longer text shows a beginning of the text  *)
(* followed by the ellipsis, never more than the limit plus the three        *)
(* characters of the ellipsis, followed by padding only.                     *)
C19_CellsTruncated ==
    Rendered =>
        LET L == PrintedLines
            W == Widths
        IN  \A r \in DOMAIN table_args.data, i \in DOMAIN ColumnsShown :
                /\ Len(L) >= r + 2
                /\ Len(L[r + 2]) >= Before(W, i) + W[i]
                /\ LET f == Field(L[r + 2], W, i)
                       t == CellText(r, i)
                   IN  IF Len(t) <= Limit
                       THEN IsPrefix(t, f) /\ Blank(f, Len(t) + 1)
                       ELSE \E n \in 3..(Limit + 3) :
                                /\ n <= Len(f)
                                /\ SubSeq(f, n - 2, n) = Ellipsis
                                /\ IsPrefix(SubSeq(f, 1, n - 3), t)
                                /\ Blank(f, n + 1)

\* DB CLI: a cell of 81 characters printed as its first 77 and the ellipsis,
\* beside a cell of exactly 80 characters printed whole.
C19_Witness ==
    /\ Rendered
    /\ table_args.cli = "db"
    /\ Len(table_args.data) = 2
    /\ Len(CellText(1, Len(ColumnsShown))) = 81
    /\ Len(CellText(2, Len(ColumnsShown))) = 80
    /\ Field(PrintedLines[3], Widths, Len(ColumnsShown)) = SubSeq(Text(81), 1, 77) \o Ellipsis
    /\ Field(PrintedLines[4], Widths, Len(ColumnsShown)) = Text(80)

(* C20: a rendered table has a header line, a separator line and one line    *)
(* per row, all of the same length; with the width of a column the maximum   *)
(* of its header's length and of the lengths of its cells (a truncated cell  *)
(* counting for the limit), each line gives every column exactly that width: *)
(* the header followed by blanks, the separator line filled without a blank, *)
(* the cell followed by blanks, and two blanks between neighbouring columns. *)
C20_ColumnWidths ==
    Rendered =>
        LET L == PrintedLines
            W == Widths
        IN  /\ Len(L) = 2 + Len(table_args.data)
            /\ \A k \in DOMAIN L : Len(L[k]) = Before(W, Len(W)) + W[Len(W)]
            /\ \A i \in DOMAIN W :
                /\ IsPrefix(HeadersShown[i], Field(L[1], W, i))
                /\ Blank(Field(L[1], W, i), Len(HeadersShown[i]) + 1)
                /\ \A j \in 1..W[i] : Field(L[2], W, i)[j] # " "
                /\ \A r \in DOMAIN table_args.data :
                    LET f == Field(L[r + 2], W, i)
                        n == ShownLength(r, i)
                    IN  /\ Blank(f, n + 1)
                        /\ n > 0 => f[n] # " "
                /\ i > 1 => \A k \in DOMAIN L :
                                SubSeq(L[k], Before(W, i) - 1, Before(W, i)) = <<" ", " ">>

-----------------------------------------------------------------------------
(* callback_plugins/review.py: CallbackModule.  The host engine delivers     *)
(* lifecycle events one after another; a handler answers with calls of       *)
(* self._display.display(msg, color), and keeps nothing between events.  A   *)
(* text is the sequence of its characters or of whole words whose letters do *)
(* not matter; a value of a result is [s |-> text], [n |-> integer] or       *)
(* [list |-> values]; a colour is the name of the constant of                *)
(* ansible.constants, "None" when the call gives none.                       *)

MaxEvents == 3

display(msg, color) == [msg |-> msg, color |-> color]

\* str(v) and f"{v}"
text_of(v) ==
    IF "s" \in DOMAIN v THEN v.s
    ELSE IF "n" \in DOMAIN v THEN str(v.n)
    ELSE <<"[">>
         \o join(<<",", " ">>,
                 [i \in DOMAIN v.list |->
                    IF "s" \in DOMAIN v.list[i] THEN <<"'">> \o v.list[i].s \o <<"'">>
                    ELSE str(v.list[i].n)])
         \o <<"]">>

\* Host names, listed in the order of str comparison, and sorted(names).
HostNames == <<"db1", "web2">>
sorted(names) == SelectSeq(HostNames, LAMBDA h : \E i \in DOMAIN names : names[i] = h)

v2_playbook_on_play_start(play_name) ==
    LET name == strip(play_name)
    IN  IF name # <<>>
        THEN <<display(<<"\n">> \o times(<<"=">>, 60), "COLOR_HIGHLIGHT"),
               display(<<" ", " ">> \o name, "COLOR_HIGHLIGHT"),
               display(times(<<"=">>, 60), "COLOR_HIGHLIGHT")>>
        ELSE <<>>

v2_playbook_on_task_start == <<>>

v2_runner_on_ok_prints_list_whole(action, result) ==
    IF action \in {"ansible.builtin.debug", "debug"}
    THEN <<display(text_of(Get(result, "msg", [s |-> <<>>])), "None")>>
    ELSE <<>>

v2_runner_on_ok(action, result) ==
    IF action \in {"ansible.builtin.debug", "debug"}
    THEN LET msg == Get(result, "msg", [s |-> <<>>])
         IN  IF "list" \in DOMAIN msg
             THEN [i \in DOMAIN msg.list |-> display(text_of(msg.list[i]), "None")]
             ELSE <<display(text_of(msg), "None")>>
    ELSE <<>>

v2_runner_on_failed_prefers_stderr(host, task_name, result, ignore_errors) ==
    IF ignore_errors THEN <<>>
    ELSE LET msg == Get(result, "stderr", Get(result, "msg", [s |-> <<>>]))
         IN  <<display(<<"FAILED [">> \o host \o <<"] ">> \o task_name \o <<": ">>
                       \o text_of(msg), "COLOR_ERROR")>>

v2_runner_on_failed(host, task_name, result, ignore_errors) ==
    IF ignore_errors THEN <<>>
    ELSE LET msg == Get(result, "msg", Get(result, "stderr", [s |-> <<>>]))
         IN  <<display(<<"FAILED [">> \o host \o <<"] ">> \o task_name \o <<": ">>
                       \o text_of(msg), "COLOR_ERROR")>>

v2_runner_on_skipped == <<>>

v2_runner_on_unreachable(host, result) ==
    <<display(<<"UNREACHABLE [">> \o host \o <<"]: ">>
              \o text_of(Get(result, "msg", [s |-> <<>>])), "COLOR_ERROR")>>

\* processed: the keys of stats.processed in insertion order; summaries[host]:
\* what stats.summarize(host) returns.
v2_playbook_on_stats_failures_only(processed, summaries) ==
    LET hosts == sorted(processed)
        line(host) ==
            <<host, " : ">>
            \o join(<<" ">>,
                    [k \in 1..5 |->
                        LET key == <<"ok", "changed", "unreachable", "failures", "skipped">>[k]
                        IN  <<key, "=">> \o str(Get(summaries[host], key, 0))])
    IN  <<display(<<>>, "None")>>
        \o [i \in DOMAIN hosts |->
                IF Get(summaries[hosts[i]], "failures", 0) # 0
                THEN display(line(hosts[i]), "COLOR_ERROR")
                ELSE display(line(hosts[i]), "COLOR_OK")]

v2_playbook_on_stats(processed, summaries) ==
    LET hosts == sorted(processed)
        line(host) ==
            <<host, " : ">>
            \o join(<<" ">>,
                    [k \in 1..5 |->
                        LET key == <<"ok", "changed", "unreachable", "failures", "skipped">>[k]
                        IN  <<key, "=">> \o str(Get(summaries[host], key, 0))])
    IN  <<display(<<>>, "None")>>
        \o [i \in DOMAIN hosts |->
                IF Get(summaries[hosts[i]], "failures", 0) # 0
                   \/ Get(summaries[hosts[i]], "unreachable", 0) # 0
                THEN display(line(hosts[i]), "COLOR_ERROR")
                ELSE display(line(hosts[i]), "COLOR_OK")]

v2_playbook_on_include == <<>>

v2_playbook_on_no_hosts_matched == <<display(<<"No hosts matched">>, "COLOR_WARN")>>

v2_playbook_on_no_hosts_remaining ==
    <<display(<<"No more hosts remaining">>, "COLOR_ERROR")>>

\* What the host engine passes to the handlers.
PlayNames == {<<>>, <<" ">>, <<"Audit">>, <<" ", "Audit", " ", "PVE", "\n">>}
Actions == {"debug", "ansible.builtin.debug", "set_fact", "ansible.builtin.command"}
Messages ==
    {[s |-> <<>>], [s |-> <<"disk", " ", "ok">>], [n |-> 7], [list |-> <<>>],
     [list |-> <<[s |-> <<"a">>], [s |-> <<"b">>]>>],
     [list |-> <<[s |-> <<"b">>], [s |-> <<"a">>], [s |-> <<"b">>]>>],
     [list |-> <<[n |-> 12], [s |-> <<>>]>>]}
Results ==
    {<<>>} \cup {[msg |-> m] : m \in Messages}
    \cup {[stderr |-> [s |-> <<"denied">>]],
          [msg |-> [s |-> <<"rc", " ", "1">>], stderr |-> [s |-> <<"denied">>]],
          [msg |-> [s |-> <<>>], stderr |-> [s |-> <<"denied">>]]}
Summaries ==
    {[ok |-> o, changed |-> 1, unreachable |-> u, failures |-> f, skipped |-> 4,
      rescued |-> 0, ignored |-> 0] : o \in {0, 3}, u \in {0, 1}, f \in {0, 2}}
Processed == {<<>>, <<"db1">>, <<"web2", "db1">>, <<"db1", "web2">>}

ReviewIdle ==
    /\ r_count = 0
    /\ r_event = None
    /\ r_emitted = <<>>

\* The engine calls a handler: the event and what the handler displayed.
deliver(event, emitted) ==
    /\ r_count < MaxEvents
    /\ r_count' = r_count + 1
    /\ r_event' = event
    /\ r_emitted' = emitted

NextReview ==
    \/ \E name \in PlayNames :
        /\ deliver([hook |-> "v2_playbook_on_play_start", name |-> name],
                   v2_playbook_on_play_start(name))
        /\ UNCHANGED <<httpVars, taskVars, crudVars, queryVars, mainVars, tableVars>>
    \/ /\ deliver([hook |-> "v2_playbook_on_task_start"], v2_playbook_on_task_start)
       /\ UNCHANGED <<httpVars, taskVars, crudVars, queryVars, mainVars, tableVars>>
    \/ \E action \in Actions, result \in Results :
        /\ deliver([hook |-> "v2_runner_on_ok", action |-> action, result |-> result],
                   v2_runner_on_ok(action, result))
        /\ UNCHANGED <<httpVars, taskVars, crudVars, queryVars, mainVars, tableVars>>
    \/ \E h \in DOMAIN HostNames, result \in Results, ignore_errors \in BOOLEAN :
        /\ deliver([hook |-> "v2_runner_on_failed", host |-> <<HostNames[h]>>,
                    task_name |-> <<"Check", " ", "disk">>, result |-> result,
                    ignore_errors |-> ignore_errors],
                   v2_runner_on_failed(<<HostNames[h]>>, <<"Check", " ", "disk">>, result,
                                       ignore_errors))
        /\ UNCHANGED <<httpVars, taskVars, crudVars, queryVars, mainVars, tableVars>>
    \/ /\ deliver([hook |-> "v2_runner_on_skipped"], v2_runner_on_skipped)
       /\ UNCHANGED <<httpVars, taskVars, crudVars, queryVars, mainVars, tableVars>>
    \/ \E h \in DOMAIN HostNames, result \in Results :
        /\ deliver([hook |-> "v2_runner_on_unreachable", host |-> <<HostNames[h]>>,
                    result |-> result],
                   v2_runner_on_unreachable(<<HostNames[h]>>, result))
        /\ UNCHANGED <<httpVars, taskVars, crudVars, queryVars, mainVars, tableVars>>
    \/ \E processed \in Processed, a \in Summaries, b \in Summaries :
        /\ LET summaries == [db1 |-> a, web2 |-> b]
           IN  deliver([hook |-> "v2_playbook_on_stats", processed |-> processed,
                        summaries |-> summaries],
                       v2_playbook_on_stats(processed, summaries))
        /\ UNCHANGED <<httpVars, taskVars, crudVars, queryVars, mainVars, tableVars>>
    \/ /\ deliver([hook |-> "v2_playbook_on_include"], v2_playbook_on_include)
       /\ UNCHANGED <<httpVars, taskVars, crudVars, queryVars, mainVars, tableVars>>
    \/ /\ deliver([hook |-> "v2_playbook_on_no_hosts_matched"],
                  v2_playbook_on_no_hosts_matched)
       /\ UNCHANGED <<httpVars, taskVars, crudVars, queryVars, mainVars, tableVars>>
    \/ /\ deliver([hook |-> "v2_playbook_on_no_hosts_remaining"],
                  v2_playbook_on_no_hosts_remaining)
       /\ UNCHANGED <<httpVars, taskVars, crudVars, queryVars, mainVars, tableVars>>

-----------------------------------------------------------------------------
(* Claims about the callback plugin *)

Delivered(hook) == r_event # None /\ r_event.hook = hook

DebugOk ==
    /\ Delivered("v2_runner_on_ok")
    /\ r_event.action \in {"debug", "ansible.builtin.debug"}

Contains(text, part) == part = <<>> \/ find(text, part) > 0

(* C21: for a successful debug task whose msg is a list the handler makes    *)
(* one display call per element, in list order, each with the text of the    *)
(* element and nothing else; for any other msg (a text, a number, none) it   *)
(* makes exactly one call, with the text of the msg.                         *)
C21_DebugLines ==
    DebugOk =>
        LET msg == IF "msg" \in DOMAIN r_event.result THEN r_event.result.msg
                   ELSE [s |-> <<>>]
        IN  IF "list" \in DOMAIN msg
            THEN /\ Len(r_emitted) = Len(msg.list)
                 /\ \A i \in DOMAIN msg.list :
                        r_emitted[i].msg = (IF "s" \in DOMAIN msg.list[i] THEN msg.list[i].s
                                            ELSE str(msg.list[i].n))
            ELSE /\ Len(r_emitted) = 1
                 /\ r_emitted[1].msg = (IF "s" \in DOMAIN msg THEN msg.s ELSE str(msg.n))

\* The list b, a, b: three lines, in that order.
C21_Witness ==
    /\ DebugOk
    /\ "msg" \in DOMAIN r_event.result
    /\ r_event.result.msg = [list |-> <<[s |-> <<"b">>], [s |-> <<"a">>], [s |-> <<"b">>]>>]
    /\ Len(r_emitted) = 3
    /\ r_emitted[1].msg = <<"b">>
    /\ r_emitted[2].msg = <<"a">>

(* C22: a failure delivered with ignore_errors set displays nothing; any     *)
(* other failure displays exactly one line, in the error colour, which holds *)
(* the host name, the task name and the text of the result's msg, or of its  *)
(* stderr when the result has no msg.                                        *)
C22_FailureLine ==
    Delivered("v2_runner_on_failed") =>
        IF r_event.ignore_errors THEN r_emitted = <<>>
        ELSE /\ Len(r_emitted) = 1
             /\ r_emitted[1].color = "COLOR_ERROR"
             /\ Contains(r_emitted[1].msg, r_event.host)
             /\ Contains(r_emitted[1].msg, r_event.task_name)
             /\ LET res == r_event.result
                    said == IF "msg" \in DOMAIN res THEN res.msg
                            ELSE IF "stderr" \in DOMAIN res THEN res.stderr
                            ELSE [s |-> <<>>]
                    n == Len(text_of(said))
                    line == r_emitted[1].msg
                IN  /\ Len(line) >= n
                    /\ SubSeq(line, Len(line) - n + 1, Len(line)) = text_of(said)

\* A failure with both msg and stderr: the line ends with the msg.
C22_Witness ==
    /\ Delivered("v2_runner_on_failed")
    /\ ~r_event.ignore_errors
    /\ DOMAIN r_event.result = {"msg", "stderr"}
    /\ r_event.result.msg.s = <<"rc", " ", "1">>
    /\ r_emitted = <<display(<<"FAILED [", "web2", "] ", "Check", " ", "disk", ": ",
                               "rc", " ", "1">>, "COLOR_ERROR")>>

Rank(host) == CHOOSE i \in DOMAIN HostNames : HostNames[i] = host

(* C23: at the stats event the handler displays, after one empty line, one   *)
(* line per processed host, the hosts in sorted order; the line names the    *)
(* host and lists ok, changed, unreachable, failures, skipped with the       *)
(* host's counts; its colour is the ok colour exactly when the host's        *)
(* failures and unreachable counts are both zero and the error colour        *)
(* otherwise.                                                                *)
C23_StatsLines ==
    Delivered("v2_playbook_on_stats") =>
        LET processed == r_event.processed
            lines == Tail(r_emitted)
        IN  /\ r_emitted # <<>>
            /\ r_emitted[1].msg = <<>>
            /\ Len(lines) = Len(processed)
            /\ \A i \in DOMAIN processed : \E k \in DOMAIN lines : lines[k].msg[1] = processed[i]
            /\ \A k \in DOMAIN lines : k > 1 => Rank(lines[k - 1].msg[1]) < Rank(lines[k].msg[1])
            /\ \A k \in DOMAIN lines :
                LET sum == r_event.summaries[lines[k].msg[1]]
                IN  /\ lines[k].msg = <<lines[k].msg[1], " : ">>
                                      \o <<"ok", "=">> \o str(sum.ok) \o <<" ">>
                                      \o <<"changed", "=">> \o str(sum.changed) \o <<" ">>
                                      \o <<"unreachable", "=">> \o str(sum.unreachable) \o <<" ">>
                                      \o <<"failures", "=">> \o str(sum.failures) \o <<" ">>
                                      \o <<"skipped", "=">> \o str(sum.skipped)
                    /\ lines[k].color = (IF sum.failures = 0 /\ sum.unreachable = 0
                                         THEN "COLOR_OK" ELSE "COLOR_ERROR")

\* web2 processed before db1: db1's line first; db1 with an unreachable count
\* and no failure in the error colour, web2 in the ok colour.
C23_Witness ==
    /\ Delivered("v2_playbook_on_stats")
    /\ r_event.processed = <<"web2", "db1">>
    /\ r_event.summaries["db1"].failures = 0
    /\ r_event.summaries["db1"].unreachable = 1
    /\ r_event.summaries["web2"].failures = 0
    /\ r_event.summaries["web2"].unreachable = 0
    /\ Len(r_emitted) = 3
    /\ r_emitted[2].msg[1] = "db1"
    /\ r_emitted[2].color = "COLOR_ERROR"
    /\ r_emitted[3].msg[1] = "web2"
    /\ r_emitted[3].color = "COLOR_OK"

(* C24: only a play start (and only with a non-empty play name), a           *)
(* successful debug task, a failure without ignore_errors, an unreachable    *)
(* host and the stats event display anything; every other event delivered    *)
(* to the plugin displays nothing.                                           *)
C24_OtherEventsSilent ==
    (r_event # None /\ r_emitted # <<>>) =>
        \/ Delivered("v2_playbook_on_play_start") /\ r_event.name # <<>>
        \/ DebugOk
        \/ Delivered("v2_runner_on_failed") /\ ~r_event.ignore_errors
        \/ Delivered("v2_runner_on_unreachable")
        \/ Delivered("v2_playbook_on_stats")

-----------------------------------------------------------------------------
(* db_cli.py: what each command does with the database driver, from the     *)
(* call of its handler to the end of the process.  db_log holds the calls   *)
(* on the driver in order; a connection is open from its successful connect *)
(* to its close.                                                            *)

\* One preset that reads the logging database and one that reads Semaphore's.
Presets == {"backups", "tasks"}

DbRuns ==
    {[command |-> "query", db |-> db, sql |-> FirstWords[w] \o <<" ", "1">>,
      write |-> flag, word |-> w] :
        db \in {"semaphore", "logging"}, flag \in BOOLEAN, w \in WordNames}
    \cup {[command |-> c, db |-> IF c = "backups" THEN "logging" ELSE "semaphore",
           sql |-> <<"S", "E", "L", "E", "C", "T", " ", "1">>, write |-> FALSE,
           word |-> "SELECT"] : c \in Presets}
    \cup {[command |-> "config test"]}
    \cup {[command |-> "config init", opts |-> o] : o \in DbInits}

\* The parsed invocation, its config loaded, before the handler is called.
DbInit ==
    /\ qpc = "main"
    /\ qargs \in DbRuns
    /\ sql = <<>>
    /\ is_write = FALSE
    /\ qout = <<>>
    /\ qerr = None
    /\ qexit = <<>>
    /\ db_log = <<>>
    /\ db_data = [committed |-> 0, pending |-> 0]

\* main(): `handler(args, config)`; a preset calls run_query with its own statement.
db_main ==
    /\ qpc = "main"
    /\ qpc' = CASE qargs.command = "query" -> "cmd_query"
                [] qargs.command = "config test" -> "test_connect"
                [] qargs.command = "config init" -> "init_connect"
                [] OTHER -> "connect"
    /\ sql' = IF qargs.command \in Presets THEN qargs.sql ELSE sql
    /\ UNCHANGED <<qargs, is_write, qout, qerr, qexit, db_log, db_data>>

Connected(database, ok) == [call |-> "connect", arg |-> <<database>>, ok |-> ok]
Executed(statement, ok) == [call |-> "execute", arg |-> statement, ok |-> ok]
ConnectionClosed == [call |-> "close", arg |-> <<>>, ok |-> TRUE]

CallsOf(call) == Cardinality({i \in DOMAIN db_log : db_log[i].call = call})

\* cmd_config_test: `conn = get_connection(cfg, db)` of the loop's next database
db_config_test_connect ==
    /\ qpc = "test_connect"
    /\ LET db == <<DEFAULT_SEMAPHORE_DB, DEFAULT_LOGGING_DB>>[CallsOf("connect") + 1] IN
       \E outcome \in {"ok", "OperationalError"} :
        /\ db_log' = Append(db_log, Connected(db, outcome = "ok"))
        /\ IF outcome = "ok"
           THEN /\ qpc' = "test_execute"
                /\ UNCHANGED <<qerr, qexit>>
           ELSE /\ qerr' = [msg |-> [text |-> "Cannot connect to"], detail |-> <<>>]
                /\ qexit' = <<1>>
                /\ qpc' = "exited"
    /\ UNCHANGED <<qargs, sql, is_write, qout, db_data>>

\* cmd_config_test: `with conn.cursor() as cur: cur.execute("SELECT 1")`, then
\* `conn.close()`, then the next database or the result.  No try surrounds the
\* execute: when it raises, the close is not reached and the exception ends
\* the process.
db_config_test_execute ==
    /\ qpc = "test_execute"
    /\ \E outcome \in {"ok", "OperationalError"} :
        LET select_1 == <<"S", "E", "L", "E", "C", "T", " ", "1">> IN
        IF outcome = "ok"
        THEN /\ db_log' = db_log \o <<Executed(select_1, TRUE), ConnectionClosed>>
             /\ IF CallsOf("connect") = 2
                THEN /\ qout' = <<[status |-> "ok"]>>
                     /\ qexit' = <<0>>
                     /\ qpc' = "exited"
                ELSE /\ qpc' = "test_connect"
                     /\ UNCHANGED <<qout, qexit>>
             /\ UNCHANGED qerr
        ELSE /\ db_log' = Append(db_log, Executed(select_1, FALSE))
             /\ qerr' = [msg |-> [text |-> "Traceback"], detail |-> <<>>]
             /\ qexit' = <<1>>
             /\ qpc' = "exited"
             /\ UNCHANGED qout
    /\ UNCHANGED <<qargs, sql, is_write, db_data>>

\* cmd_config_init: one turn of `for db in [...]: try: connect; close; except`,
\* and after the second the save, the print and the return.
db_config_init_connect ==
    /\ qpc = "init_connect"
    /\ LET o == qargs.opts
           tried == CallsOf("connect")
           db == <<o.semaphore_db, o.logging_db>>[tried + 1]
       IN  \E outcome \in {"ok", "OperationalError"} :
            /\ db_log' = IF outcome = "ok"
                         THEN db_log \o <<Connected(db, TRUE), ConnectionClosed>>
                         ELSE Append(db_log, Connected(db, FALSE))
            /\ IF tried = 1
               THEN /\ cred_file' = db_save_config(cred_file, o.host, o.port, o.user,
                                                   o.password, o.semaphore_db, o.logging_db)
                    /\ qout' = <<[status |-> "ok",
                                  databases |-> [i \in 1..2 |->
                                      IF i = 1
                                      THEN \E j \in DOMAIN db_log : db_log[j].call = "close"
                                      ELSE outcome = "ok"]]>>
                    /\ qexit' = <<0>>
                    /\ qpc' = "exited"
               ELSE UNCHANGED <<cred_file, qout, qexit, qpc>>
    /\ UNCHANGED <<qargs, sql, is_write, qerr, db_data>>
    /\ UNCHANGED <<tool, margs, environ, mpc, mconfig, mout, merr, mexit, io_log, runs,
                   last_init>>

NextDb ==
    \/ (db_main /\ UNCHANGED <<httpVars, taskVars, crudVars, mainVars, tableVars, reviewVars>>)
    \/ (cmd_query /\ UNCHANGED <<httpVars, taskVars, crudVars, mainVars, tableVars, reviewVars>>)
    \/ (get_connection /\ UNCHANGED <<httpVars, taskVars, crudVars, mainVars, tableVars, reviewVars>>)
    \/ (run_query /\ UNCHANGED <<httpVars, taskVars, crudVars, mainVars, tableVars, reviewVars>>)
    \/ (db_config_test_connect /\ UNCHANGED <<httpVars, taskVars, crudVars, mainVars, tableVars, reviewVars>>)
    \/ (db_config_test_execute /\ UNCHANGED <<httpVars, taskVars, crudVars, mainVars, tableVars, reviewVars>>)
    \/ (db_config_init_connect /\ UNCHANGED <<httpVars, taskVars, crudVars, tableVars, reviewVars>>)

-----------------------------------------------------------------------------
(* Claims about the database connections *)

Opened == Cardinality({i \in DOMAIN db_log : db_log[i].call = "connect" /\ db_log[i].ok})
FailedCalls == {i \in DOMAIN db_log : ~db_log[i].ok}

(* C27: a database command closes every connection it opened before the     *)
(* process ends, on success and on failure; a failed connect or statement   *)
(* is reported on the error stream with a non-zero exit code; and no        *)
(* connect or execute follows a failed call.  Read for the commands that    *)
(* go through get_connection: query, the presets and config test.           *)
C27_ConnectionPerInvocation ==
    qargs.command # "config init" =>
        /\ CallsOf("close") <= Opened
        /\ qpc = "exited" => CallsOf("close") = Opened
        /\ FailedCalls # {} =>
            /\ qpc = "exited"
            /\ qerr # None
            /\ qexit # <<>> /\ qexit # <<0>>
        /\ \A i \in FailedCalls :
            \A j \in DOMAIN db_log : j > i => db_log[j].call = "close"

-----------------------------------------------------------------------------
(* Specifications: one per tool, the other tools idle. *)

NextHttp == HttpCall

InitHttp == HttpIdle /\ TaskIdle /\ CrudIdle /\ QueryIdle /\ MainIdle /\ TableIdle /\ ReviewIdle

SpecHttp == InitHttp /\ [][NextHttp]_vars

InitTask == TaskInit /\ HttpIdle /\ CrudIdle /\ QueryIdle /\ MainIdle /\ TableIdle /\ ReviewIdle

SpecTask == InitTask /\ [][NextTask]_vars

\* The run with its scheduling: the server's task moves on and its output grows.
NextTaskLive ==
    \/ (main_task_run /\ UNCHANGED <<httpVars, crudVars, queryVars, mainVars, tableVars, reviewVars>>)
    \/ (task_run_post /\ UNCHANGED <<httpVars, crudVars, queryVars, mainVars, tableVars, reviewVars>>)
    \/ (task_run_sleep /\ UNCHANGED <<httpVars, crudVars, queryVars, mainVars, tableVars, reviewVars>>)
    \/ (task_run_get_status /\ UNCHANGED <<httpVars, crudVars, queryVars, mainVars, tableVars, reviewVars>>)
    \/ (task_run_get_raw /\ UNCHANGED <<httpVars, crudVars, queryVars, mainVars, tableVars, reviewVars>>)
    \/ (server_step /\ UNCHANGED <<httpVars, crudVars, queryVars, mainVars, tableVars, reviewVars>>)
    \/ (server_append /\ UNCHANGED <<httpVars, crudVars, queryVars, mainVars, tableVars, reviewVars>>)

SpecTaskLive == InitTask /\ [][NextTaskLive]_vars /\ WF_vars(cli_step)

InitCrud == CrudInit /\ HttpIdle /\ TaskIdle /\ QueryIdle /\ MainIdle /\ TableIdle /\ ReviewIdle

SpecCrud == InitCrud /\ [][NextCrud]_vars

InitQuery == QueryInit /\ HttpIdle /\ TaskIdle /\ CrudIdle /\ MainIdle /\ TableIdle /\ ReviewIdle

SpecQuery == InitQuery /\ [][NextQuery]_vars

InitMain == MainInit /\ HttpIdle /\ TaskIdle /\ CrudIdle /\ QueryIdle /\ TableIdle /\ ReviewIdle

SpecMain == InitMain /\ [][NextMain]_vars

InitTemplate == TemplateInit /\ HttpIdle /\ TaskIdle /\ QueryIdle /\ MainIdle /\ TableIdle /\ ReviewIdle

SpecTemplate == InitTemplate /\ [][NextTemplate]_vars

InitTable == TableInit /\ HttpIdle /\ TaskIdle /\ CrudIdle /\ QueryIdle /\ MainIdle /\ ReviewIdle

SpecTable == InitTable /\ [][NextTable]_vars

InitReview == ReviewIdle /\ HttpIdle /\ TaskIdle /\ CrudIdle /\ QueryIdle /\ MainIdle /\ TableIdle

SpecReview == InitReview /\ [][NextReview]_vars

InitDb == DbInit /\ HttpIdle /\ TaskIdle /\ CrudIdle /\ MainIdle /\ TableIdle /\ ReviewIdle

SpecDb == InitDb /\ [][NextDb]_vars

====
